---------------------------- MODULE Spec2Model ----------------------------
(***************************************************************************)
(* Ghost-layer exchange for partitioned structured grids                   *)
(* (Parallel/DIY/vtkDIYGhostUtilities.cxx).                                *)
(*                                                                         *)
(* The blocks of a run are uniform grids (vtkImageData).  An extent is the *)
(* C array int[6]; it is a 6-tuple here and At(e, i) reads the C index i.  *)
(* The pipeline is                                                         *)
(*   ExchangeBlockStructures          (peel input ghosts, descriptor round)*)
(*   ComputeGridLinkMapAndAllocateGhosts                                   *)
(*   FillGridHiddenGhosts                                                  *)
(* and the interface id lists are functions of the state it leaves.        *)
(***************************************************************************)
EXTENDS Integers, Sequences, FiniteSets, TLC

VARIABLES
  gids,               \* global ids of the blocks of the run
  inputExtent,        \* [gid -> extent] grid->GetExtent() of each input
  inputGeometry,      \* [gid -> [Origin, Spacing, OrientationQuaternion]] of an image,
                      \* [XCoordinates, YCoordinates, ZCoordinates] of a rectilinear
                      \* grid, [Points] of a structured grid
  inputGhosts,        \* [gid -> NoArray or [cell -> 0..255]] input cell-ghost array
  inputGhostLevels,   \* ghost level announced for the inputs
  outputGhostLevels,  \* ghost level asked for the outputs
  Information,        \* [gid -> [Extent, ExtentGhostThickness]] block->Information
  BlockStructures,    \* [gid -> [remote gid -> block structure]] block->BlockStructures
  linkMap,            \* [gid -> set of gids] the link map under construction
  outputExtent,       \* [gid -> extent] output->GetExtent()
  GhostCellArray,     \* [gid -> [cell -> value]] block->GhostCellArray
  GhostPointArray,    \* [gid -> [point -> value]] block->GhostPointArray
  queue,              \* [<<sender, receiver>> -> the items enqueued and not yet dequeued]
  pc                  \* position in the pipeline

vars == <<gids, inputExtent, inputGeometry, inputGhosts, inputGhostLevels,
          outputGhostLevels, Information, BlockStructures, linkMap, outputExtent,
          GhostCellArray, GhostPointArray, queue, pc>>

----------------------------------------------------------------------------
(* Bounds of the model.                                                    *)

\* Index coordinates of the blocks range over 0..MaxCoord.
MaxCoord == 3
\* outputGhostLevels ranges over 0..MaxGhost.
MaxGhost == 2

----------------------------------------------------------------------------
(* Small arithmetic.                                                       *)

Min(a, b) == IF a < b THEN a ELSE b
Max(a, b) == IF a > b THEN a ELSE b
Abs(a) == IF a < 0 THEN -a ELSE a
\* A C bool used as an int.
B2I(b) == IF b THEN 1 ELSE 0
\* Bit w (a power of two) of mask m.
Bit(m, w) == (m \div w) % 2 = 1
\* m & n and m << 1 on unsigned char.
BitAnd(m, n) ==
  LET f(w) == IF Bit(m, w) /\ Bit(n, w) THEN w ELSE 0
  IN  f(1) + f(2) + f(4) + f(8) + f(16) + f(32) + f(64) + f(128)
ShiftLeft1(m) == (m * 2) % 256

\* extent[i] with the C index i in 0..5.
At(e, i) == e[i + 1]
\* The extent e with C index i set to v.
Put(e, i, v) == [e EXCEPT ![i + 1] = v]

----------------------------------------------------------------------------
(* enum Adjacency, enum Overlap.                                           *)

Left == 1
Right == 2
Front == 4
Back == 8
Bottom == 16
Top == 32

OverlapX == 1
OverlapY == 2
OverlapXY == 3
OverlapZ == 4
OverlapXZ == 5
OverlapYZ == 6

IsExtentValid(extent) ==
  At(extent, 0) <= At(extent, 1) /\ At(extent, 2) <= At(extent, 3)
    /\ At(extent, 4) <= At(extent, 5)

\* The points of a grid, each named by its (i, j, k).
PointsOf(extent) ==
  (At(extent, 0)..At(extent, 1)) \X (At(extent, 2)..At(extent, 3))
    \X (At(extent, 4)..At(extent, 5))

\* vtkStructuredData::ComputePointIdForExtent: the points are numbered i fastest.
ComputePointIdForExtent(extent, ijk) ==
  LET xdim == At(extent, 1) - At(extent, 0) + 1
      ydim == At(extent, 3) - At(extent, 2) + 1
  IN  (ijk[3] - At(extent, 4)) * ydim * xdim + (ijk[2] - At(extent, 2)) * xdim
        + (ijk[1] - At(extent, 0))

\* vtkPoints::GetPoint and GetTypedTuple: the ids count from 0.
GetPoint(points, id) == points[id + 1]

\* vtkStructuredData::GetDataDimension: the number of axes with more than one point;
\* an extent with min > max on some axis describes an empty grid, of dimension 0.
DataDimension(extent) ==
  IF ~IsExtentValid(extent) THEN 0
  ELSE B2I(At(extent, 0) < At(extent, 1)) + B2I(At(extent, 2) < At(extent, 3))
         + B2I(At(extent, 4) < At(extent, 5))


----------------------------------------------------------------------------
(* ComputeAdjacencyAndOverlapMasks                                         *)

\* The mutant keeps the adjacency bits of the degenerate axes of localExtent.
ComputeAdjacencyAndOverlapMasksNoDegenerateMask(localExtent, extent) ==
  [adjacencyMask |->
       B2I(At(localExtent, 0) = At(extent, 1)) * Left
     + B2I(At(localExtent, 1) = At(extent, 0)) * Right
     + B2I(At(localExtent, 2) = At(extent, 3)) * Front
     + B2I(At(localExtent, 3) = At(extent, 2)) * Back
     + B2I(At(localExtent, 4) = At(extent, 5)) * Bottom
     + B2I(At(localExtent, 5) = At(extent, 4)) * Top,
   overlapMask |->
       B2I(At(localExtent, 0) < At(extent, 1) /\ At(extent, 0) < At(localExtent, 1))
     + B2I(At(localExtent, 2) < At(extent, 3) /\ At(extent, 2) < At(localExtent, 3)) * 2
     + B2I(At(localExtent, 4) < At(extent, 5) /\ At(extent, 4) < At(localExtent, 5)) * 4]

ComputeAdjacencyAndOverlapMasks(localExtent, extent) ==
  [adjacencyMask |->
     BitAnd(
         B2I(At(localExtent, 0) = At(extent, 1)) * Left
       + B2I(At(localExtent, 1) = At(extent, 0)) * Right
       + B2I(At(localExtent, 2) = At(extent, 3)) * Front
       + B2I(At(localExtent, 3) = At(extent, 2)) * Back
       + B2I(At(localExtent, 4) = At(extent, 5)) * Bottom
       + B2I(At(localExtent, 5) = At(extent, 4)) * Top,
         (Left + Right) * B2I(At(localExtent, 0) # At(localExtent, 1))
       + (Front + Back) * B2I(At(localExtent, 2) # At(localExtent, 3))
       + (Bottom + Top) * B2I(At(localExtent, 4) # At(localExtent, 5))),
   overlapMask |->
       B2I(At(localExtent, 0) < At(extent, 1) /\ At(extent, 0) < At(localExtent, 1))
     + B2I(At(localExtent, 2) < At(extent, 3) /\ At(extent, 2) < At(localExtent, 3)) * 2
     + B2I(At(localExtent, 4) < At(extent, 5) /\ At(extent, 4) < At(localExtent, 5)) * 4]

----------------------------------------------------------------------------
(* SynchronizeGridExtents(ImageDataBlockStructure)                         *)
(* Origins and spacings are whole numbers here, so NearlyEqual and lround  *)
(* are exact.  The result is [ok, shiftedExtent].                          *)

Dot3(u, v) == u[1] * v[1] + u[2] * v[2] + u[3] * v[3]
Dot4(u, v) == u[1] * v[1] + u[2] * v[2] + u[3] * v[3] + u[4] * v[4]

\* std::lround(a / b) for whole a, b with b # 0: the quotient rounded half away from 0.
LRoundDiv(a, b) ==
  LET n == Abs(a)
      d == Abs(b)
      q == (2 * n + d) \div (2 * d)
  IN  IF (a < 0) = (b < 0) THEN q ELSE -q

SynchronizeGridExtents(localBlockStructure, blockStructure) ==
  LET extent == blockStructure.Extent
      originDiff == [a \in 1..3 |->
         LRoundDiv(blockStructure.Origin[a] - localBlockStructure.Origin[a],
                   blockStructure.Spacing[a])]
  IN  IF \/ At(extent, 0) > At(extent, 1)
         \/ At(extent, 2) > At(extent, 3)
         \/ At(extent, 4) > At(extent, 5)
         \/ blockStructure.DataDimension # localBlockStructure.DataDimension
         \/ Dot3(blockStructure.Spacing, localBlockStructure.Spacing)
              # Dot3(localBlockStructure.Spacing, localBlockStructure.Spacing)
         \/ Dot4(blockStructure.OrientationQuaternion,
                 localBlockStructure.OrientationQuaternion) # 1
      THEN [ok |-> FALSE, shiftedExtent |-> extent]
      ELSE [ok |-> TRUE,
            shiftedExtent |->
              << At(extent, 0) - originDiff[1], At(extent, 1) - originDiff[1],
                 At(extent, 2) - originDiff[2], At(extent, 3) - originDiff[2],
                 At(extent, 4) - originDiff[3], At(extent, 5) - originDiff[3] >>]

----------------------------------------------------------------------------
(* RectilinearGridFittingWorker and SynchronizeGridExtents for rectilinear  *)
(* grids.  A coordinate array is a sequence; GetValue counts from 0.  The   *)
(* coordinates are whole numbers, on which both Comparators are equality.   *)
(* A worker is [MinId, MaxId, LocalMinId, LocalMaxId, Overlaps].            *)

GetValue(array, id) == array[id + 1]
GetNumberOfTuples(array) == Len(array)

Equals(localVal, val) == localVal - val = 0

\* A variant of SubArraysAreEqual's loop that stops nowhere before an array ends.
RECURSIVE EqualRunToTheEnd(_, _, _, _)
EqualRunToTheEnd(lowerArray, upperArray, lowerId, upperId) ==
  IF lowerId < GetNumberOfTuples(lowerArray) /\ upperId < GetNumberOfTuples(upperArray)
  THEN EqualRunToTheEnd(lowerArray, upperArray, lowerId + 1, upperId + 1)
  ELSE <<lowerId, upperId>>

\* The loop of SubArraysAreEqual: the pair <<lowerId, upperId>> it ends with.
RECURSIVE EqualRun(_, _, _, _)
EqualRun(lowerArray, upperArray, lowerId, upperId) ==
  IF /\ lowerId < GetNumberOfTuples(lowerArray)
     /\ upperId < GetNumberOfTuples(upperArray)
     /\ Equals(GetValue(lowerArray, lowerId), GetValue(upperArray, upperId))
  THEN EqualRun(lowerArray, upperArray, lowerId + 1, upperId + 1)
  ELSE <<lowerId, upperId>>

\* The end of SubArraysAreEqual, after its loop has stopped at the pair end.
SubArraysAreEqualAt(lowerArray, end, worker) ==
  IF end[1] = GetNumberOfTuples(lowerArray)
  THEN [ok |-> TRUE,
        worker |-> [worker EXCEPT !.MaxId = end[1] - 1,
                                  !.LocalMaxId = end[2] - 1,
                                  !.Overlaps = TRUE]]
  ELSE [ok |-> FALSE, worker |-> worker]

\* The result is [ok, worker].
SubArraysAreEqual(lowerArray, upperArray, lowerId, worker) ==
  SubArraysAreEqualAt(lowerArray, EqualRun(lowerArray, upperArray, lowerId, 0), worker)

\* The first loop of FitArrays: the id at which it stops.
RECURSIVE SkipLower(_, _, _)
SkipLower(lowerMinArray, upperMinArray, id) ==
  IF /\ id < GetNumberOfTuples(lowerMinArray)
     /\ GetValue(lowerMinArray, id) < GetValue(upperMinArray, 0)
     /\ ~Equals(GetValue(lowerMinArray, id), GetValue(upperMinArray, 0))
  THEN SkipLower(lowerMinArray, upperMinArray, id + 1)
  ELSE id

\* std::swap(this->MaxId, this->LocalMaxId)
SwapMaxIds(worker) ==
  [worker EXCEPT !.MaxId = worker.LocalMaxId, !.LocalMaxId = worker.MaxId]

\* std::swap(this->MinId, this->LocalMinId)
SwapMinIds(worker) ==
  [worker EXCEPT !.MinId = worker.LocalMinId, !.LocalMinId = worker.MinId]

\* The end of FitArrays, after SubArraysAreEqual has returned equal.
FitArraysWhen(equal, id, swapMax) ==
  IF ~equal.ok THEN equal.worker
  ELSE IF swapMax
  THEN SwapMaxIds([equal.worker EXCEPT !.LocalMinId = 0, !.MinId = id])
  ELSE [equal.worker EXCEPT !.LocalMinId = 0, !.MinId = id]

\* FitArrays from the id at which its first loop has stopped.
FitArraysFrom(lowerMinArray, upperMinArray, id, swapMax, worker) ==
  FitArraysWhen(SubArraysAreEqual(lowerMinArray, upperMinArray, id, worker), id, swapMax)

\* FitArrays once lowerMinArray and upperMinArray are chosen.
FitMinArrays(lowerMinArray, upperMinArray, swapMax, worker) ==
  FitArraysFrom(lowerMinArray, upperMinArray,
                SkipLower(lowerMinArray, upperMinArray, 0), swapMax, worker)

FitArrays(lowerMaxArray, upperMaxArray, worker) ==
  FitMinArrays(IF GetValue(lowerMaxArray, 0) > GetValue(upperMaxArray, 0)
               THEN upperMaxArray ELSE lowerMaxArray,
               IF GetValue(lowerMaxArray, 0) < GetValue(upperMaxArray, 0)
               THEN upperMaxArray ELSE lowerMaxArray,
               GetValue(lowerMaxArray, 0) > GetValue(upperMaxArray, 0),
               worker)

\* The fields of a worker that has not run.
NewWorker ==
  [MinId |-> 0, MaxId |-> -1, LocalMinId |-> 0, LocalMaxId |-> -1, Overlaps |-> FALSE]

\* The worker built on the remote array and run on the local one.
RectilinearGridFittingWorker(localArray, array) ==
  IF GetValue(localArray, GetNumberOfTuples(localArray) - 1)
       > GetValue(array, GetNumberOfTuples(array) - 1)
  THEN FitArrays(array, localArray, NewWorker)
  ELSE SwapMaxIds(SwapMinIds(FitArrays(localArray, array, NewWorker)))

\* originDiff of the overload for rectilinear grids.
OriginDiff(extent, localExtent, xWorker, yWorker, zWorker) ==
  << At(extent, 0) + xWorker.MinId - At(localExtent, 0) - xWorker.LocalMinId,
     At(extent, 2) + yWorker.MinId - At(localExtent, 2) - yWorker.LocalMinId,
     At(extent, 4) + zWorker.MinId - At(localExtent, 4) - zWorker.LocalMinId >>

\* A variant of ShiftExtent that adds originDiff to the extent.
ShiftExtentAdding(extent, originDiff) ==
  << At(extent, 0) + originDiff[1], At(extent, 1) + originDiff[1],
     At(extent, 2) + originDiff[2], At(extent, 3) + originDiff[2],
     At(extent, 4) + originDiff[3], At(extent, 5) + originDiff[3] >>

\* shiftedExtent of the overload for rectilinear grids.
ShiftExtent(extent, originDiff) ==
  << At(extent, 0) - originDiff[1], At(extent, 1) - originDiff[1],
     At(extent, 2) - originDiff[2], At(extent, 3) - originDiff[2],
     At(extent, 4) - originDiff[3], At(extent, 5) - originDiff[3] >>

\* The overload for rectilinear grids once the three workers have run.
SynchronizeFittedGridExtents(localExtent, localDim, extent, dim, xWorker, yWorker, zWorker) ==
  IF \/ localDim # dim
     \/ At(extent, 0) > At(extent, 1)
     \/ At(extent, 2) > At(extent, 3)
     \/ At(extent, 4) > At(extent, 5)
  THEN [ok |-> FALSE, shiftedExtent |-> extent]
  ELSE IF /\ ~xWorker.Overlaps \/ ~yWorker.Overlaps \/ ~zWorker.Overlaps
          /\ \/ xWorker.MinId # xWorker.MaxId
             \/ yWorker.MinId # yWorker.MaxId
             \/ zWorker.MinId # zWorker.MaxId
  THEN [ok |-> FALSE, shiftedExtent |-> extent]
  ELSE [ok |-> TRUE,
        shiftedExtent |->
          ShiftExtent(extent, OriginDiff(extent, localExtent, xWorker, yWorker, zWorker))]

\* The overload for rectilinear grids.  The result is [ok, shiftedExtent].
SynchronizeRectilinearGridExtents(localBlockStructure, blockStructure) ==
  SynchronizeFittedGridExtents(
    localBlockStructure.Extent, localBlockStructure.DataDimension,
    blockStructure.Extent, blockStructure.DataDimension,
    RectilinearGridFittingWorker(localBlockStructure.XCoordinates, blockStructure.XCoordinates),
    RectilinearGridFittingWorker(localBlockStructure.YCoordinates, blockStructure.YCoordinates),
    RectilinearGridFittingWorker(localBlockStructure.ZCoordinates, blockStructure.ZCoordinates))

----------------------------------------------------------------------------
(* StructuredGridFittingWorker and SynchronizeGridExtents for structured    *)
(* grids.  A Grid2D is [StartX, StartY, EndX, EndY, XOrientation,           *)
(* YOrientation, ExtentId].  A worker is [LocalGrid, Grid, Connected,       *)
(* BestConnectionFound, Observed, Matched]; Grid is the GridInterface of    *)
(* the neighbor's structure, which the worker holds by reference.  Observed *)
(* and Matched are not fields of the code.  Observed lists, for every sweep *)
(* that found the grids fitting, the rectangle of the sweep and the         *)
(* LocalGrid kept after it; Matched holds LocalExtentIndex and sideId of    *)
(* the last pass of operator() that found the grids fitting.                *)
(* A side of a sweep is [points, extentId, extent, xdim, ydim, xBegin,      *)
(* yBegin] and, for the querying side, [xEnd, yEnd, directionX, directionY].*)

\* The members of a Grid2D as the structure is built.
NewGrid2D ==
  [StartX |-> 0, StartY |-> 0, EndX |-> 0, EndY |-> 0,
   XOrientation |-> 0, YOrientation |-> 0, ExtentId |-> -1]

\* The worker as SynchronizeGridExtents builds it on the neighbor's GridInterface.
NewFittingWorker(gridInterface) ==
  [LocalGrid |-> NewGrid2D, Grid |-> gridInterface, Connected |-> FALSE,
   BestConnectionFound |-> FALSE, Observed |-> << >>,
   Matched |-> [LocalExtentIndex |-> -1, sideId |-> -1]]

\* The extent of face i of a block of the given extent.
FaceExtent(extent, i) == Put(extent, IF i % 2 = 1 THEN i - 1 ELSE i + 1, At(extent, i))

\* xdim and ydim of a face: the first indices in an extent of its two axes.
XDim(extentId) == ((extentId + 2) % 6) - (((extentId + 2) % 6) % 2)
YDim(extentId) == ((extentId + 4) % 6) - (((extentId + 4) % 6) % 2)

sweepDirection(cornerId) == IF cornerId = 0 THEN 1 ELSE -1

\* The squared distance between two points.
Distance2BetweenPoints(p, q) ==
  (q[1] - p[1]) * (q[1] - p[1]) + (q[2] - p[2]) * (q[2] - p[2]) + (q[3] - p[3]) * (q[3] - p[3])

\* The search of the closest point from id on, best being the closest before id.
RECURSIVE CloserPoint(_, _, _, _)
CloserPoint(points, p, id, best) ==
  IF id >= Len(points) THEN best
  ELSE CloserPoint(points, p, id + 1,
                   IF Distance2BetweenPoints(GetPoint(points, id), p)
                        < Distance2BetweenPoints(GetPoint(points, best), p)
                   THEN id ELSE best)

\* vtkStaticPointLocator::FindClosestPoint on the points of a face: the id of a
\* point at the least distance.
FindClosestPoint(points, p) == CloserPoint(points, p, 1, 0)

\* vtkStructuredData::ComputePointStructuredCoordsForExtent.
ComputePointStructuredCoordsForExtent(pointId, extent) ==
  << At(extent, 0) + (pointId % (At(extent, 1) - At(extent, 0) + 1)),
     At(extent, 2) + ((pointId \div (At(extent, 1) - At(extent, 0) + 1))
                        % (At(extent, 3) - At(extent, 2) + 1)),
     At(extent, 4) + (pointId \div ((At(extent, 1) - At(extent, 0) + 1)
                                      * (At(extent, 3) - At(extent, 2) + 1))) >>

\* The three Comparator::Equals of a point against a point.
PointsAreEqual(point, queryPoint) ==
  Equals(point[1], queryPoint[1]) /\ Equals(point[2], queryPoint[2])
    /\ Equals(point[3], queryPoint[3])

\* ijk of the point at (x, y) on a face: the third index is the one of the face.
FaceIjk(extentId, extent, xdim, ydim, x, y) ==
  [a \in 1..3 |-> IF a - 1 = xdim \div 2 THEN x
                  ELSE IF a - 1 = ydim \div 2 THEN y
                  ELSE At(extent, extentId)]

\* The point at (x, y) on a side of a sweep.
SweptPoint(side, x, y) ==
  GetPoint(side.points,
           ComputePointIdForExtent(side.extent,
             FaceIjk(side.extentId, side.extent, side.xdim, side.ydim, x, y)))

\* The number of steps the loops of a sweep make along one axis while the grids
\* fit: until the querying side or the other side reaches its corner.
SweepLength(queryBegin, queryEnd, begin, corner) ==
  Min(Abs(queryEnd - queryBegin), Abs(corner - begin)) + 1

\* gridsAreFitting at the end of the two loops of a sweep that makes nx by ny steps.
GridsAreFitting(query, side, xCornerId, yCornerId, nx, ny) ==
  \A i \in 0..(nx - 1), j \in 0..(ny - 1) :
    PointsAreEqual(SweptPoint(side, side.xBegin + i * sweepDirection(xCornerId),
                              side.yBegin + j * sweepDirection(yCornerId)),
                   SweptPoint(query, query.xBegin + i * query.directionX,
                              query.yBegin + j * query.directionY))

\* The rectangle a sweep has covered from (xBegin, yBegin), as a Grid2D.
SweptGrid(xBegin, yBegin, directionX, directionY, nx, ny, extentId) ==
  [StartX |-> xBegin, StartY |-> yBegin,
   EndX |-> xBegin + directionX * (nx - 1), EndY |-> yBegin + directionY * (ny - 1),
   XOrientation |-> directionX, YOrientation |-> directionY, ExtentId |-> extentId]

\* The test of SweepGrids on the sizes of the retained and the new rectangle.
IsLarger(localGrid, found) ==
  \/ Abs(localGrid.EndX - localGrid.StartX) <= Abs(found.EndX - found.StartX)
  \/ Abs(localGrid.EndY - localGrid.StartY) <= Abs(found.EndY - found.StartY)

\* The end of one sweep: r is [retVal, worker], found and foundOther are the
\* rectangles of the querying side and of the other side.
SaveGrid(r, fitting, found, foundOther) ==
  IF fitting /\ IsLarger(r.worker.LocalGrid, found)
  THEN [retVal |-> TRUE,
        worker |-> [r.worker EXCEPT
                      !.LocalGrid = found, !.Grid = foundOther,
                      !.Observed = Append(@, [Fitting |-> found, Retained |-> found])]]
  ELSE IF fitting
  THEN [retVal |-> r.retVal,
        worker |-> [r.worker EXCEPT
                      !.Observed = Append(@, [Fitting |-> found,
                                               Retained |-> r.worker.LocalGrid])]]
  ELSE r

\* One pass of the two for loops over xCornerId and yCornerId of SweepGrids.
\* Grid.ExtentId is given queryExtentId, as LocalGrid.ExtentId is.
SweepGrid(r, query, side, xCornerId, yCornerId, nx, ny) ==
  SaveGrid(r, GridsAreFitting(query, side, xCornerId, yCornerId, nx, ny),
           SweptGrid(query.xBegin, query.yBegin, query.directionX, query.directionY,
                     nx, ny, query.extentId),
           SweptGrid(side.xBegin, side.yBegin, sweepDirection(xCornerId),
                     sweepDirection(yCornerId), nx, ny, query.extentId))

\* The corners in the order of `for xCornerId, for yCornerId`.
Corners == << <<0, 0>>, <<0, 1>>, <<1, 0>>, <<1, 1>> >>

RECURSIVE SweepCorners(_, _, _, _)
SweepCorners(r, query, side, corners) ==
  IF corners = << >> THEN r
  ELSE SweepCorners(
         SweepGrid(r, query, side, Head(corners)[1], Head(corners)[2],
                   SweepLength(query.xBegin, query.xEnd, side.xBegin,
                               At(side.extent, side.xdim + ((Head(corners)[1] + 1) % 2))),
                   SweepLength(query.yBegin, query.yEnd, side.yBegin,
                               At(side.extent, side.ydim + ((Head(corners)[2] + 1) % 2)))),
         query, side, Tail(corners))

\* The result is [retVal, worker].
SweepGrids(worker, query, side) ==
  SweepCorners([retVal |-> FALSE, worker |-> worker], query, side, Corners)

\* The querying side of the sweeps from corner (xCornerId, yCornerId) of a face.
QuerySide(queryPoints, queryExtent, queryExtentId, xCornerId, yCornerId) ==
  [points |-> queryPoints, extentId |-> queryExtentId, extent |-> queryExtent,
   xdim |-> XDim(queryExtentId), ydim |-> YDim(queryExtentId),
   xBegin |-> At(queryExtent, XDim(queryExtentId) + xCornerId),
   xEnd |-> At(queryExtent, XDim(queryExtentId) + ((xCornerId + 1) % 2)),
   directionX |-> sweepDirection(xCornerId),
   yBegin |-> At(queryExtent, YDim(queryExtentId) + yCornerId),
   yEnd |-> At(queryExtent, YDim(queryExtentId) + ((yCornerId + 1) % 2)),
   directionY |-> sweepDirection(yCornerId)]

\* The other side of the sweeps, which begin at its point ijk.
OtherSide(points, extent, extentId, ijk) ==
  [points |-> points, extentId |-> extentId, extent |-> extent,
   xdim |-> XDim(extentId), ydim |-> YDim(extentId),
   xBegin |-> ijk[(XDim(extentId) \div 2) + 1], yBegin |-> ijk[(YDim(extentId) \div 2) + 1]]

\* if (this->SweepGrids(...)) retVal = true
OrRetVal(retVal, swept) == [retVal |-> retVal \/ swept.retVal, worker |-> swept.worker]

\* GridsFit on one corner of the querying face, pointId being the closest point.
FitCorner(r, query, points, extent, extentId, pointId) ==
  IF PointsAreEqual(GetPoint(points, pointId), SweptPoint(query, query.xBegin, query.yBegin))
  THEN OrRetVal(r.retVal,
                SweepGrids(r.worker, query,
                           OtherSide(points, extent, extentId,
                                     ComputePointStructuredCoordsForExtent(pointId, extent))))
  ELSE r

\* GridsFit on one corner of the querying face: the closest point is looked up.
FitQueryCorner(r, query, points, extent, extentId) ==
  FitCorner(r, query, points, extent, extentId,
            FindClosestPoint(points, SweptPoint(query, query.xBegin, query.yBegin)))

RECURSIVE FitCorners(_, _, _, _, _, _, _, _)
FitCorners(r, queryPoints, queryExtent, queryExtentId, points, extent, extentId, corners) ==
  IF corners = << >> THEN r
  ELSE FitCorners(
         FitQueryCorner(r,
                        QuerySide(queryPoints, queryExtent, queryExtentId,
                                  Head(corners)[1], Head(corners)[2]),
                        points, extent, extentId),
         queryPoints, queryExtent, queryExtentId, points, extent, extentId, Tail(corners))

\* The result is [retVal, worker].
GridsFit(worker, queryPoints, queryExtent, queryExtentId, points, extent, extentId) ==
  FitCorners([retVal |-> FALSE, worker |-> worker], queryPoints, queryExtent, queryExtentId,
             points, extent, extentId, Corners)

\* std::swap of Start and End along x, with the orientation negated; the same along y.
FlipX(grid) ==
  [grid EXCEPT !.StartX = grid.EndX, !.EndX = grid.StartX, !.XOrientation = -grid.XOrientation]

FlipY(grid) ==
  [grid EXCEPT !.StartY = grid.EndY, !.EndY = grid.StartY, !.YOrientation = -grid.YOrientation]

\* operator(): the two flips to canonical coordinates.
FlipLocalGridX(worker) ==
  IF worker.LocalGrid.StartX > worker.LocalGrid.EndX
  THEN [worker EXCEPT !.LocalGrid = FlipX(@), !.Grid = FlipX(@)]
  ELSE worker

FlipLocalGridY(worker) ==
  IF worker.LocalGrid.StartY > worker.LocalGrid.EndY
  THEN [worker EXCEPT !.LocalGrid = FlipY(@), !.Grid = FlipY(@)]
  ELSE worker

\* operator(): a grid with two axes is the best connection.
FindBestConnection(worker) ==
  IF worker.Grid.EndX - worker.Grid.StartX # 0 /\ worker.Grid.EndY - worker.Grid.StartY # 0
  THEN [worker EXCEPT !.BestConnectionFound = TRUE]
  ELSE worker

\* operator(): what follows a GridsFit that returned true.
Connect(worker, LocalExtentIndex, sideId) ==
  FindBestConnection(FlipLocalGridY(FlipLocalGridX(
    [worker EXCEPT !.Connected = TRUE,
                   !.Matched = [LocalExtentIndex |-> LocalExtentIndex, sideId |-> sideId]])))

\* std::swap(this->Grid, this->LocalGrid)
SwapGrids(worker) ==
  [worker EXCEPT !.Grid = worker.LocalGrid, !.LocalGrid = worker.Grid]

\* operator(): the second GridsFit of a side, the neighbor's face querying.
FitFromNeighbor(second, LocalExtentIndex, sideId) ==
  IF second.retVal THEN Connect(SwapGrids(second.worker), LocalExtentIndex, sideId)
  ELSE second.worker

\* operator(): one pass of the loop over sideId, first being the result of the
\* GridsFit that queries from the local face.
FitSide(first, localPoints, LocalExtent, LocalExtentIndex, points, extent, sideId) ==
  IF first.retVal THEN Connect(first.worker, LocalExtentIndex, sideId)
  ELSE FitFromNeighbor(GridsFit(first.worker, points, extent, sideId,
                                localPoints, LocalExtent, LocalExtentIndex),
                       LocalExtentIndex, sideId)

\* operator() from sideId on: it returns when the best connection is found.
RECURSIVE FitSides(_, _, _, _, _, _)
FitSides(worker, localPoints, LocalExtent, LocalExtentIndex, blockStructure, sideId) ==
  IF sideId >= 6 \/ worker.BestConnectionFound THEN worker
  ELSE FitSides(
         FitSide(GridsFit(worker, localPoints, LocalExtent, LocalExtentIndex,
                          At(blockStructure.OuterPointLayers, sideId),
                          FaceExtent(blockStructure.Extent, sideId), sideId),
                 localPoints, LocalExtent, LocalExtentIndex,
                 At(blockStructure.OuterPointLayers, sideId),
                 FaceExtent(blockStructure.Extent, sideId), sideId),
         localPoints, LocalExtent, LocalExtentIndex, blockStructure, sideId + 1)

\* The worker run on the local face LocalExtentIndex.
StructuredGridFittingWorker(worker, localBlockStructure, LocalExtentIndex, blockStructure) ==
  FitSides(worker, At(localBlockStructure.OuterPointLayers, LocalExtentIndex),
           FaceExtent(localBlockStructure.Extent, LocalExtentIndex), LocalExtentIndex,
           blockStructure, 0)

\* The loop of SynchronizeGridExtents over the faces of the local block.
RECURSIVE FitFaces(_, _, _, _)
FitFaces(worker, localBlockStructure, LocalExtentIndex, blockStructure) ==
  IF worker.BestConnectionFound \/ LocalExtentIndex >= 6 THEN worker
  ELSE FitFaces(StructuredGridFittingWorker(worker, localBlockStructure, LocalExtentIndex,
                                            blockStructure),
                localBlockStructure, LocalExtentIndex + 1, blockStructure)

\* shiftedExtent once the worker has found the grids connected.
ShiftStructuredExtent(extent, localExtent, localGrid, grid) ==
  LET xdim == XDim(localGrid.ExtentId)
      ydim == YDim(localGrid.ExtentId)
      inFace == Put(Put(Put(Put(extent, xdim, localGrid.StartX), xdim + 1, localGrid.EndX),
                        ydim, localGrid.StartY), ydim + 1, localGrid.EndY)
      oppositeExtentId == grid.ExtentId + (IF grid.ExtentId % 2 = 1 THEN -1 ELSE 1)
      deltaExtent == (IF localGrid.ExtentId % 2 = 1 THEN -1 ELSE 1)
                       * Abs(At(extent, grid.ExtentId) - At(extent, oppositeExtentId))
  IN  Put(Put(inFace, localGrid.ExtentId + (IF localGrid.ExtentId % 2 = 1 THEN -1 ELSE 1),
              At(inFace, localGrid.ExtentId) + deltaExtent),
          localGrid.ExtentId, At(localExtent, localGrid.ExtentId))

\* The end of SynchronizeGridExtents, the worker having run on every face.
SynchronizeFittedStructuredGridExtents(localExtent, extent, worker) ==
  IF ~worker.Connected
  THEN [ok |-> FALSE, shiftedExtent |-> extent, worker |-> worker]
  ELSE [ok |-> TRUE,
        shiftedExtent |-> ShiftStructuredExtent(extent, localExtent, worker.LocalGrid,
                                                worker.Grid),
        worker |-> worker]

\* The overload for structured grids.  The result is [ok, shiftedExtent, worker].
SynchronizeStructuredGridExtents(localBlockStructure, blockStructure) ==
  IF \/ localBlockStructure.DataDimension # blockStructure.DataDimension
     \/ At(blockStructure.Extent, 0) > At(blockStructure.Extent, 1)
     \/ At(blockStructure.Extent, 2) > At(blockStructure.Extent, 3)
     \/ At(blockStructure.Extent, 4) > At(blockStructure.Extent, 5)
  THEN [ok |-> FALSE, shiftedExtent |-> blockStructure.Extent,
        worker |-> NewFittingWorker(blockStructure.GridInterface)]
  ELSE SynchronizeFittedStructuredGridExtents(
         localBlockStructure.Extent, blockStructure.Extent,
         FitFaces(NewFittingWorker(blockStructure.GridInterface), localBlockStructure, 0,
                  blockStructure))

----------------------------------------------------------------------------
(* AddGhostLayerToGrid: the neighbor blockStructure touches side idx of the *)
(* local block.  The result is the pair [blockStructure, blockInformation]. *)
(* AddGhostLayerOfGridPoints does nothing for image data.                   *)

\* vtkDataArray::InsertTuples: n tuples of source, from srcStart on, are written
\* into array from dstStart on, which grows as needed; nothing is written when
\* the source has not that many tuples.
InsertTuples(array, dstStart, n, srcStart, source) ==
  IF n <= 0 \/ srcStart < 0 \/ srcStart + n > Len(source) THEN array
  ELSE [i \in 1..Max(Len(array), dstStart + n) |->
          IF i > dstStart /\ i <= dstStart + n THEN source[srcStart + i - dstStart]
          ELSE IF i <= Len(array) THEN array[i] ELSE 0]

\* The coordinate array of a rectilinear block structure along the axis of side extentIdx.
CoordinatesAlong(blockStructure, extentIdx) ==
  CASE extentIdx \div 2 = 0 -> blockStructure.XCoordinates
    [] extentIdx \div 2 = 1 -> blockStructure.YCoordinates
    [] OTHER -> blockStructure.ZCoordinates

\* AddGhostLayerOfGridPoints: nothing for image data; for a rectilinear grid the
\* coordinates of the new layers on side extentIdx are taken from the neighbor.
\* CoordinateGhostsAllocated holds the sides whose smart pointer is not null.
AddGhostLayerOfGridPoints(extentIdx, blockInformation, blockStructure) ==
  IF "CoordinateGhosts" \notin DOMAIN blockInformation THEN blockInformation
  ELSE
    LET layerThickness == At(blockInformation.ExtentGhostThickness, extentIdx)
        coordinateGhosts == At(blockInformation.CoordinateGhosts, extentIdx)
        coords == CoordinatesAlong(blockStructure, extentIdx)
        tmp == InsertTuples(<< >>, 0, layerThickness - Len(coordinateGhosts),
                            Len(coords) - layerThickness - 1, coords)
        allocated == [blockInformation EXCEPT !.CoordinateGhostsAllocated = @ \cup {extentIdx}]
    IN  IF ~(Len(coordinateGhosts) < layerThickness) THEN allocated
        ELSE [allocated EXCEPT !.CoordinateGhosts =
                Put(@, extentIdx,
                    IF extentIdx % 2 = 0
                    THEN InsertTuples(tmp, Len(tmp), Len(coordinateGhosts), 0,
                                      coordinateGhosts)
                    ELSE InsertTuples(coordinateGhosts, Len(coordinateGhosts),
                                      layerThickness - Len(coordinateGhosts), 1, coords))]

\* The mutant adds every neighbor's depth to the thickness instead of keeping the largest.
AddGhostLayerToGridSum(idx, ogl, blockStructure, blockInformation) ==
  LET extent == blockStructure.Extent
      upperBound == idx % 2 = 1
      oppositeIdx == IF upperBound THEN idx - 1 ELSE idx + 1
      localOutputGhostLevels ==
        Min(ogl, Abs(At(extent, idx) - At(extent, oppositeIdx)))
  IN  [blockInformation |->
         [blockInformation EXCEPT !.ExtentGhostThickness =
            Put(@, idx, At(@, idx) + localOutputGhostLevels)],
       blockStructure |->
         [blockStructure EXCEPT !.ExtentWithNewGhosts =
            Put(@, oppositeIdx,
                At(@, oppositeIdx)
                  + (IF upperBound THEN -1 ELSE 1) * localOutputGhostLevels)]]

\* The mutant overwrites the thickness with the last neighbor's depth.
AddGhostLayerToGridLast(idx, ogl, blockStructure, blockInformation) ==
  LET extent == blockStructure.Extent
      upperBound == idx % 2 = 1
      oppositeIdx == IF upperBound THEN idx - 1 ELSE idx + 1
      localOutputGhostLevels ==
        Min(ogl, Abs(At(extent, idx) - At(extent, oppositeIdx)))
  IN  [blockInformation |->
         [blockInformation EXCEPT !.ExtentGhostThickness =
            Put(@, idx, localOutputGhostLevels)],
       blockStructure |->
         [blockStructure EXCEPT !.ExtentWithNewGhosts =
            Put(@, oppositeIdx,
                At(@, oppositeIdx)
                  + (IF upperBound THEN -1 ELSE 1) * localOutputGhostLevels)]]

\* The mutant widens the neighbor on the side away from the local block.
AddGhostLayerToGridSameSide(idx, ogl, blockStructure, blockInformation) ==
  LET extent == blockStructure.Extent
      upperBound == idx % 2 = 1
      oppositeIdx == IF upperBound THEN idx - 1 ELSE idx + 1
      localOutputGhostLevels ==
        Min(ogl, Abs(At(extent, idx) - At(extent, oppositeIdx)))
  IN  [blockInformation |->
         [blockInformation EXCEPT !.ExtentGhostThickness =
            Put(@, idx, Max(At(@, idx), localOutputGhostLevels))],
       blockStructure |->
         [blockStructure EXCEPT !.ExtentWithNewGhosts =
            Put(@, idx,
                At(@, idx)
                  + (IF upperBound THEN 1 ELSE -1) * localOutputGhostLevels)]]

\* The mutant takes the larger of the asked level and the neighbor's width as the depth.
AddGhostLayerToGridMaxDepth(idx, ogl, blockStructure, blockInformation) ==
  LET extent == blockStructure.Extent
      upperBound == idx % 2 = 1
      oppositeIdx == IF upperBound THEN idx - 1 ELSE idx + 1
      localOutputGhostLevels ==
        Max(ogl, Abs(At(extent, idx) - At(extent, oppositeIdx)))
  IN  [blockInformation |->
         [blockInformation EXCEPT !.ExtentGhostThickness =
            Put(@, idx, Max(At(@, idx), localOutputGhostLevels))],
       blockStructure |->
         [blockStructure EXCEPT !.ExtentWithNewGhosts =
            Put(@, oppositeIdx,
                At(@, oppositeIdx)
                  + (IF upperBound THEN -1 ELSE 1) * localOutputGhostLevels)]]

AddGhostLayerToGrid(idx, ogl, blockStructure, blockInformation) ==
  LET extent == blockStructure.Extent
      upperBound == idx % 2 = 1
      oppositeIdx == IF upperBound THEN idx - 1 ELSE idx + 1
      localOutputGhostLevels ==
        Min(ogl, Abs(At(extent, idx) - At(extent, oppositeIdx)))
  IN  [blockInformation |->
         AddGhostLayerOfGridPoints(idx,
           [blockInformation EXCEPT !.ExtentGhostThickness =
              Put(@, idx, Max(At(@, idx), localOutputGhostLevels))],
           blockStructure),
       blockStructure |->
         [blockStructure EXCEPT !.ExtentWithNewGhosts =
            Put(@, oppositeIdx,
                At(@, oppositeIdx)
                  + (IF upperBound THEN -1 ELSE 1) * localOutputGhostLevels)]]

----------------------------------------------------------------------------
(* LinkGrid.  The three branches of the classification and the switch of   *)
(* each; a switch that reaches its default yields the empty sequence.      *)

\* The first condition: adjacency where faces overlap.
FaceOverlap(adjacencyMask, overlapMask, dim) ==
  \/ /\ \/ dim = 3 /\ overlapMask = OverlapYZ
        \/ dim = 2 /\ BitAnd(overlapMask, OverlapYZ) # 0
        \/ dim = 1 /\ overlapMask = 0
     /\ BitAnd(adjacencyMask, Left + Right) # 0
  \/ /\ \/ dim = 3 /\ overlapMask = OverlapXZ
        \/ dim = 2 /\ BitAnd(overlapMask, OverlapXZ) # 0
     /\ BitAnd(adjacencyMask, Front + Back) # 0
  \/ /\ \/ dim = 3 /\ overlapMask = OverlapXY
        \/ dim = 2 /\ BitAnd(overlapMask, OverlapXY) # 0
     /\ BitAnd(adjacencyMask, Bottom + Top) # 0

\* The second condition: adjacency where edges overlap but no face does.
EdgeOverlap(adjacencyMask, overlapMask, dim) ==
  \/ /\ \/ dim = 3 /\ overlapMask = OverlapX
        \/ dim = 2 /\ overlapMask = 0
     /\ BitAnd(adjacencyMask, Front + Back) # 0
     /\ BitAnd(adjacencyMask, Bottom + Top) # 0
  \/ /\ \/ dim = 3 /\ overlapMask = OverlapY
        \/ dim = 2 /\ overlapMask = 0
     /\ BitAnd(adjacencyMask, Left + Right) # 0
     /\ BitAnd(adjacencyMask, Bottom + Top) # 0
  \/ /\ \/ dim = 3 /\ overlapMask = OverlapZ
        \/ dim = 2 /\ overlapMask = 0
     /\ BitAnd(adjacencyMask, Left + Right) # 0
     /\ BitAnd(adjacencyMask, Front + Back) # 0

\* switch (adjacencyMask) of the face branch: idx.
FaceSwitch(adjacencyMask) ==
  CASE adjacencyMask = Left -> <<0>>
    [] adjacencyMask = Right -> <<1>>
    [] adjacencyMask = Front -> <<2>>
    [] adjacencyMask = Back -> <<3>>
    [] adjacencyMask = Bottom -> <<4>>
    [] adjacencyMask = Top -> <<5>>
    [] OTHER -> <<>>

\* switch (adjacencyMask) of the edge branch: idx1, idx2.
EdgeSwitch(adjacencyMask) ==
  CASE adjacencyMask = Front + Bottom -> <<2, 4>>
    [] adjacencyMask = Front + Top -> <<2, 5>>
    [] adjacencyMask = Back + Bottom -> <<3, 4>>
    [] adjacencyMask = Back + Top -> <<3, 5>>
    [] adjacencyMask = Left + Bottom -> <<0, 4>>
    [] adjacencyMask = Left + Top -> <<0, 5>>
    [] adjacencyMask = Right + Bottom -> <<1, 4>>
    [] adjacencyMask = Right + Top -> <<1, 5>>
    [] adjacencyMask = Left + Front -> <<0, 2>>
    [] adjacencyMask = Left + Back -> <<0, 3>>
    [] adjacencyMask = Right + Front -> <<1, 2>>
    [] adjacencyMask = Right + Back -> <<1, 3>>
    [] OTHER -> <<>>

\* switch (adjacencyMask) of the corner branch: idx1, idx2, idx3.
CornerSwitch(adjacencyMask) ==
  CASE adjacencyMask = Left + Front + Bottom -> <<0, 2, 4>>
    [] adjacencyMask = Left + Front + Top -> <<0, 2, 5>>
    [] adjacencyMask = Left + Back + Bottom -> <<0, 3, 4>>
    [] adjacencyMask = Left + Back + Top -> <<0, 3, 5>>
    [] adjacencyMask = Right + Front + Bottom -> <<1, 2, 4>>
    [] adjacencyMask = Right + Front + Top -> <<1, 2, 5>>
    [] adjacencyMask = Right + Back + Bottom -> <<1, 3, 4>>
    [] adjacencyMask = Right + Back + Top -> <<1, 3, 5>>
    [] OTHER -> <<>>

\* The sides of the local block that LinkGrid gives a ghost layer for this neighbor.
LinkGridSides(adjacencyMask, overlapMask, dim) ==
  IF FaceOverlap(adjacencyMask, overlapMask, dim) THEN FaceSwitch(adjacencyMask)
  ELSE IF EdgeOverlap(adjacencyMask, overlapMask, dim) THEN EdgeSwitch(adjacencyMask)
  ELSE CornerSwitch(adjacencyMask)

\* The successive calls AddGhostLayerToGrid(idx1), (idx2), (idx3).
RECURSIVE AddGhostLayers(_, _, _, _)
AddGhostLayers(sides, ogl, blockStructure, blockInformation) ==
  IF sides = <<>>
  THEN [blockStructure |-> blockStructure, blockInformation |-> blockInformation]
  ELSE LET r == AddGhostLayerToGrid(Head(sides), ogl, blockStructure, blockInformation)
       IN  AddGhostLayers(Tail(sides), ogl, r.blockStructure, r.blockInformation)

\* The mutant leaves the entry in the map.
EraseNothing(m, k) == m

\* The map m without the key k: blockStructures.erase(it).
Erase(m, k) == [g \in DOMAIN m \ {k} |-> m[g]]

\* LinkGrid on the entry gid of blockStructures.  The result is
\* [blockStructures, blockInformation, localLinks].
LinkGrid(blockStructures, gid, blockInformation, localLinks, adjacencyMask, overlapMask, ogl, dim) ==
  LET sides == LinkGridSides(adjacencyMask, overlapMask, dim)
      r == AddGhostLayers(sides, ogl, blockStructures[gid], blockInformation)
  IN  IF sides = <<>>
      THEN [blockStructures |-> Erase(blockStructures, gid),
            blockInformation |-> blockInformation,
            localLinks |-> localLinks]
      ELSE [blockStructures |-> [blockStructures EXCEPT ![gid] = r.blockStructure],
            blockInformation |-> r.blockInformation,
            localLinks |-> localLinks \cup {gid}]

----------------------------------------------------------------------------
(* ComputeGridLinkMapAndAllocateGhosts, for one local block.               *)

ZeroExtent == <<0, 0, 0, 0, 0, 0>>

\* BlockStructureType localBlockStructure(input, block->Information), and the
\* structure a block enqueues in the descriptor round.
ImageDataBlockStructure(extent, dim, geometry) ==
  [Extent |-> extent,
   DataDimension |-> dim,
   Origin |-> geometry.Origin,
   Spacing |-> geometry.Spacing,
   OrientationQuaternion |-> geometry.OrientationQuaternion,
   ExtentWithNewGhosts |-> ZeroExtent,
   AdjacencyMask |-> 0]

RectilinearGridBlockStructure(extent, dim, xCoordinates, yCoordinates, zCoordinates) ==
  [Extent |-> extent,
   DataDimension |-> dim,
   XCoordinates |-> xCoordinates,
   YCoordinates |-> yCoordinates,
   ZCoordinates |-> zCoordinates,
   ExtentWithNewGhosts |-> ZeroExtent,
   AdjacencyMask |-> 0]

StructuredGridBlockStructure(extent, dim, points) ==
  [Extent |-> extent,
   DataDimension |-> dim,
   OuterPointLayers |-> points,
   GridInterface |-> NewGrid2D,
   ExtentWithNewGhosts |-> ZeroExtent,
   AdjacencyMask |-> 0]

\* BlockStructureType localBlockStructure(input, blockInformation): an image
\* takes its frame from the input, a rectilinear grid its coordinates and a
\* structured grid its outer point layers from the block's information.
LocalBlockStructure(blockInformation, dim, geometry) ==
  IF "XCoordinates" \in DOMAIN blockInformation
  THEN RectilinearGridBlockStructure(blockInformation.Extent, dim,
         blockInformation.XCoordinates, blockInformation.YCoordinates,
         blockInformation.ZCoordinates)
  ELSE IF "OuterPointLayers" \in DOMAIN blockInformation
  THEN StructuredGridBlockStructure(blockInformation.Extent, dim,
         blockInformation.OuterPointLayers)
  ELSE ImageDataBlockStructure(blockInformation.Extent, dim, geometry)

\* One iteration of the matching loop, on the entry gid.  st is
\* [blockStructures, blockInformation, localLinks].
MatchSynchronized(st, gid, sync, ogl, dim) ==
  LET blockStructure == st.blockStructures[gid]
      masks == ComputeAdjacencyAndOverlapMasks(st.blockInformation.Extent,
                                               sync.shiftedExtent)
      withMasks == [st.blockStructures EXCEPT
                      ![gid].AdjacencyMask = masks.adjacencyMask,
                      ![gid].ExtentWithNewGhosts = blockStructure.Extent]
  IN  IF ~sync.ok
      THEN [st EXCEPT !.blockStructures = Erase(st.blockStructures, gid)]
      ELSE LinkGrid(withMasks, gid, st.blockInformation, st.localLinks,
                    masks.adjacencyMask, masks.overlapMask, ogl, dim)

\* The same for structured grids: the worker has written the neighbor's
\* GridInterface before the masks are computed.
MatchFitted(st, gid, sync, ogl, dim) ==
  MatchSynchronized([st EXCEPT !.blockStructures[gid].GridInterface = sync.worker.Grid],
                    gid, sync, ogl, dim)

MatchNeighbor(st, gid, localBlockStructure, ogl, dim) ==
  IF "XCoordinates" \in DOMAIN st.blockStructures[gid]
  THEN MatchSynchronized(st, gid,
         SynchronizeRectilinearGridExtents(localBlockStructure, st.blockStructures[gid]),
         ogl, dim)
  ELSE IF "OuterPointLayers" \in DOMAIN st.blockStructures[gid]
  THEN MatchFitted(st, gid,
         SynchronizeStructuredGridExtents(localBlockStructure, st.blockStructures[gid]),
         ogl, dim)
  ELSE MatchSynchronized(st, gid,
         SynchronizeGridExtents(localBlockStructure, st.blockStructures[gid]), ogl, dim)

\* The matching loop over the entries of blockStructures, visited in the given order.
RECURSIVE MatchingLoop(_, _, _, _, _)
MatchingLoop(order, st, localBlockStructure, ogl, dim) ==
  IF order = <<>> THEN st
  ELSE MatchingLoop(Tail(order),
                    MatchNeighbor(st, Head(order), localBlockStructure, ogl, dim),
                    localBlockStructure, ogl, dim)

\* UpdateOutputGridStructure: the extent set on the output.
UpdateOutputGridStructure(blockInformation) ==
  LET ghostThickness == blockInformation.ExtentGhostThickness
      extent == blockInformation.Extent
  IN  << At(extent, 0) - At(ghostThickness, 0), At(extent, 1) + At(ghostThickness, 1),
         At(extent, 2) - At(ghostThickness, 2), At(extent, 3) + At(ghostThickness, 3),
         At(extent, 4) - At(ghostThickness, 4), At(extent, 5) + At(ghostThickness, 5) >>

\* AppendGhostPointsForRectilinearGrid: the pair <<coordinates, preCoordinates>> it leaves.
AppendGhostPointsForRectilinearGrid(coordinates, preCoordinates, hasPre, postCoordinates, hasPost) ==
  LET swapped == IF hasPre
                 THEN InsertTuples(preCoordinates, Len(preCoordinates), Len(coordinates), 0,
                                   coordinates)
                 ELSE coordinates
  IN  << IF hasPost
         THEN InsertTuples(swapped, Len(swapped), Len(postCoordinates), 0, postCoordinates)
         ELSE swapped,
         IF hasPre THEN coordinates ELSE preCoordinates >>

\* UpdateOutputGridPoints, as far as it changes the block's information: nothing
\* for an image; for a rectilinear grid the y and z arrays of the information
\* are extended in place (they are the arrays the output is given), the x array
\* is extended in a copy of the pointer, and the arrays that were there end in
\* the slots of the low sides.
UpdateOutputGridPoints(blockInformation) ==
  IF "CoordinateGhosts" \notin DOMAIN blockInformation THEN blockInformation
  ELSE
    LET ghosts == blockInformation.CoordinateGhosts
        has(idx) == idx \in blockInformation.CoordinateGhostsAllocated
        x == AppendGhostPointsForRectilinearGrid(blockInformation.XCoordinates,
               At(ghosts, 0), has(0), At(ghosts, 1), has(1))
        y == AppendGhostPointsForRectilinearGrid(blockInformation.YCoordinates,
               At(ghosts, 2), has(2), At(ghosts, 3), has(3))
        z == AppendGhostPointsForRectilinearGrid(blockInformation.ZCoordinates,
               At(ghosts, 4), has(4), At(ghosts, 5), has(5))
    IN  [blockInformation EXCEPT
           !.YCoordinates = y[1],
           !.ZCoordinates = z[1],
           !.CoordinateGhosts = Put(Put(Put(@, 0, x[2]), 2, y[2]), 4, z[2])]

\* A variant of the loop body that skips a block of invalid extent without
\* clearing its map of neighbors.
LinkBlockKeepStructures(order, blockStructures, blockInformation, input, geometry, output, ogl) ==
  LET localExtent == blockInformation.Extent
      st == MatchingLoop(order,
                         [blockStructures |-> blockStructures,
                          blockInformation |-> blockInformation,
                          localLinks |-> {}],
                         ImageDataBlockStructure(localExtent, DataDimension(input), geometry),
                         ogl, DataDimension(output))
  IN  IF ~IsExtentValid(localExtent)
      THEN [blockStructures |-> blockStructures,
            blockInformation |-> blockInformation,
            localLinks |-> {},
            outputExtent |-> output]
      ELSE [blockStructures |-> st.blockStructures,
            blockInformation |-> st.blockInformation,
            localLinks |-> st.localLinks,
            outputExtent |-> UpdateOutputGridStructure(st.blockInformation)]

\* The body of the loop over localId for one block.  The result is
\* [blockStructures, blockInformation, localLinks, outputExtent].
LinkBlock(order, blockStructures, blockInformation, input, geometry, output, ogl) ==
  LET localExtent == blockInformation.Extent
      dim == DataDimension(output)
      localBlockStructure ==
        LocalBlockStructure(blockInformation, DataDimension(input), geometry)
      st == MatchingLoop(order,
                         [blockStructures |-> blockStructures,
                          blockInformation |-> blockInformation,
                          localLinks |-> {}],
                         localBlockStructure, ogl, dim)
  IN  IF \/ At(localExtent, 0) > At(localExtent, 1)
         \/ At(localExtent, 2) > At(localExtent, 3)
         \/ At(localExtent, 4) > At(localExtent, 5)
      THEN [blockStructures |-> << >>,
            blockInformation |-> blockInformation,
            localLinks |-> {},
            outputExtent |-> output]
      ELSE [blockStructures |-> st.blockStructures,
            blockInformation |-> UpdateOutputGridPoints(st.blockInformation),
            localLinks |-> st.localLinks,
            outputExtent |-> UpdateOutputGridStructure(st.blockInformation)]

\* The orders in which a loop can visit the keys S of a map.
Orders(S) ==
  {o \in [1..Cardinality(S) -> S] : \A i, j \in DOMAIN o : i # j => o[i] # o[j]}

\* The keys S in increasing order: the order of std::map iteration.
RECURSIVE Ascending(_)
Ascending(S) ==
  IF S = {} THEN <<>>
  ELSE LET m == CHOOSE x \in S : \A y \in S : x <= y
       IN  <<m>> \o Ascending(S \ {m})

----------------------------------------------------------------------------
(* Cells and points of a grid.  A cell or a point is named by its (i, j, k); *)
(* the arrays of a grid are indexed by them (ComputeCellIdForExtent and      *)
(* ComputePointIdForExtent number them one to one inside the grid's extent). *)

\* The cells of a grid: a degenerate axis is one cell thick.
CellsOf(extent) ==
  (At(extent, 0)..(Max(At(extent, 1), At(extent, 0) + 1) - 1))
    \X (At(extent, 2)..(Max(At(extent, 3), At(extent, 2) + 1) - 1))
    \X (At(extent, 4)..(Max(At(extent, 5), At(extent, 4) + 1) - 1))


\* vtkDataSetAttributes::CellGhostTypes and PointGhostTypes.
HIDDENCELL == 32
HIDDENPOINT == 2
DUPLICATECELL == 1
DUPLICATEPOINT == 1

----------------------------------------------------------------------------
(* PeelOffGhostLayers.  ghosts is [present |-> FALSE] when the grid has no  *)
(* cell-ghost array, else [present |-> TRUE, values |-> [cell -> value]].   *)
(* A cursor is [ijk, lock]; dir is -1 for the walk from the lower corner    *)
(* and +1 for the walk from the upper corner.                               *)

\* One pass of `for (dim ...)` for one dim: step, and step back and lock on a ghost.
PeelStep(c, dim, dir, ghosts) ==
  LET moved == [c.ijk EXCEPT ![dim] = @ + dir]
  IN  IF c.lock[dim] THEN c
      ELSE IF ghosts.values[moved] # 0
           THEN [c EXCEPT !.lock[dim] = TRUE]
           ELSE [c EXCEPT !.ijk = moved]

\* The condition of the while loop; limit is <<imin, jmin, kmin>> going down and
\* <<imax - 1, jmax - 1, kmax - 1>> going up.
PeelContinue(c, dir, limit, ghosts) ==
  /\ ~c.lock[1] \/ ~c.lock[2] \/ ~c.lock[3]
  /\ \A dim \in 1..3 :
       c.lock[dim] \/ (IF dir < 0 THEN c.ijk[dim] > limit[dim]
                                  ELSE c.ijk[dim] < limit[dim])
  /\ ghosts.values[c.ijk] = 0

RECURSIVE PeelWalk(_, _, _, _)
PeelWalk(c, dir, limit, ghosts) ==
  IF PeelContinue(c, dir, limit, ghosts)
  THEN PeelWalk(PeelStep(PeelStep(PeelStep(c, 1, dir, ghosts), 2, dir, ghosts),
                         3, dir, ghosts),
                dir, limit, ghosts)
  ELSE c

PeelOffGhostLayers(gridExtent, ghosts, ghostLevel) ==
  LET imin == At(gridExtent, 0)
      imax == Max(At(gridExtent, 1), At(gridExtent, 0) + 1)
      jmin == At(gridExtent, 2)
      jmax == Max(At(gridExtent, 3), At(gridExtent, 2) + 1)
      kmin == At(gridExtent, 4)
      kmax == Max(At(gridExtent, 5), At(gridExtent, 4) + 1)
      lock == << At(gridExtent, 0) = At(gridExtent, 1),
                 At(gridExtent, 2) = At(gridExtent, 3),
                 At(gridExtent, 4) = At(gridExtent, 5) >>
      lower == PeelWalk([ijk |-> << Min(imin + ghostLevel, imax - 1),
                                    Min(jmin + ghostLevel, jmax - 1),
                                    Min(kmin + ghostLevel, kmax - 1) >>,
                         lock |-> lock],
                        -1, <<imin, jmin, kmin>>, ghosts)
      upper == PeelWalk([ijk |-> << Max(imax - 1 - ghostLevel, imin),
                                    Max(jmax - 1 - ghostLevel, jmin),
                                    Max(kmax - 1 - ghostLevel, kmin) >>,
                         lock |-> lock],
                        1, <<imax - 1, jmax - 1, kmax - 1>>, ghosts)
  IN  IF ~ghosts.present THEN gridExtent
      ELSE << lower.ijk[1], upper.ijk[1] + B2I(At(gridExtent, 0) # At(gridExtent, 1)),
              lower.ijk[2], upper.ijk[2] + B2I(At(gridExtent, 2) # At(gridExtent, 3)),
              lower.ijk[3], upper.ijk[3] + B2I(At(gridExtent, 4) # At(gridExtent, 5)) >>

----------------------------------------------------------------------------
(* FillGridCellArray, FillGridPointArray, FillGridHiddenGhosts.  A box is   *)
(* <<imin, imax, jmin, jmax, kmin, kmax>>.                                  *)

\* The mutant folds val into the value already there (exclusive or) instead of
\* storing val.
FillGridCellArrayXor(array, box, val) ==
  [c \in DOMAIN array |->
     IF /\ At(box, 0) <= c[1] /\ c[1] < At(box, 1)
        /\ At(box, 2) <= c[2] /\ c[2] < At(box, 3)
        /\ At(box, 4) <= c[3] /\ c[3] < At(box, 5)
     THEN IF Bit(array[c], val) THEN array[c] - val ELSE array[c] + val
     ELSE array[c]]

\* The loops of FillGridCellArray run over imin <= i < imax.
FillGridCellArray(array, box, val) ==
  [c \in DOMAIN array |->
     IF /\ At(box, 0) <= c[1] /\ c[1] < At(box, 1)
        /\ At(box, 2) <= c[2] /\ c[2] < At(box, 3)
        /\ At(box, 4) <= c[3] /\ c[3] < At(box, 5)
     THEN val ELSE array[c]]

\* The loops of FillGridPointArray run over imin <= i <= imax.
FillGridPointArray(array, box, val) ==
  [c \in DOMAIN array |->
     IF /\ At(box, 0) <= c[1] /\ c[1] <= At(box, 1)
        /\ At(box, 2) <= c[2] /\ c[2] <= At(box, 3)
        /\ At(box, 4) <= c[3] /\ c[3] <= At(box, 5)
     THEN val ELSE array[c]]

\* The boxes FillGridHiddenGhosts hands to FillGridCellArray, in call order.
HiddenCellBoxes(localExtent, localExtentWithNoGhosts) ==
  LET le == localExtent
      ng == localExtentWithNoGhosts
      deg == << B2I(At(le, 0) = At(le, 1)), B2I(At(le, 2) = At(le, 3)),
                B2I(At(le, 4) = At(le, 5)) >>
  IN  (IF deg[1] = 0
       THEN << << At(le, 0), At(ng, 0), At(le, 2), At(le, 3) + deg[2],
                  At(le, 4), At(le, 5) + deg[3] >>,
               << At(ng, 1), At(le, 1), At(le, 2), At(le, 3) + deg[2],
                  At(le, 4), At(le, 5) + deg[3] >> >>
       ELSE <<>>)
   \o (IF deg[2] = 0
       THEN << << At(le, 0), At(le, 1) + deg[1], At(le, 2), At(ng, 2),
                  At(le, 4), At(le, 5) + deg[3] >>,
               << At(le, 0), At(le, 1) + deg[1], At(ng, 3), At(le, 3),
                  At(le, 4), At(le, 5) + deg[3] >> >>
       ELSE <<>>)
   \o (IF deg[3] = 0
       THEN << << At(le, 0), At(le, 1) + deg[1], At(le, 2), At(le, 3) + deg[2],
                  At(le, 4), At(ng, 4) >>,
               << At(le, 0), At(le, 1) + deg[1], At(le, 2), At(le, 3) + deg[2],
                  At(ng, 5), At(le, 5) >> >>
       ELSE <<>>)

\* A variant that paints the points from the faces of the grid without ghosts on,
\* as the cells are: the shift by one of the point ranges is left out.
HiddenPointBoxesNoShift(localExtent, localExtentWithNoGhosts) ==
  LET le == localExtent
      ng == localExtentWithNoGhosts
  IN  (IF At(le, 0) # At(le, 1)
       THEN << << At(le, 0), At(ng, 0), At(le, 2), At(le, 3), At(le, 4), At(le, 5) >>,
               << At(ng, 1), At(le, 1), At(le, 2), At(le, 3), At(le, 4), At(le, 5) >> >>
       ELSE <<>>)
   \o (IF At(le, 2) # At(le, 3)
       THEN << << At(le, 0), At(le, 1), At(le, 2), At(ng, 2), At(le, 4), At(le, 5) >>,
               << At(le, 0), At(le, 1), At(ng, 3), At(le, 3), At(le, 4), At(le, 5) >> >>
       ELSE <<>>)
   \o (IF At(le, 4) # At(le, 5)
       THEN << << At(le, 0), At(le, 1), At(le, 2), At(le, 3), At(le, 4), At(ng, 4) >>,
               << At(le, 0), At(le, 1), At(le, 2), At(le, 3), At(ng, 5), At(le, 5) >> >>
       ELSE <<>>)

\* The boxes FillGridHiddenGhosts hands to FillGridPointArray, in call order.
HiddenPointBoxes(localExtent, localExtentWithNoGhosts) ==
  LET le == localExtent
      ng == localExtentWithNoGhosts
  IN  (IF At(le, 0) # At(le, 1)
       THEN << << At(le, 0), At(ng, 0) - 1, At(le, 2), At(le, 3), At(le, 4), At(le, 5) >>,
               << At(ng, 1) + 1, At(le, 1), At(le, 2), At(le, 3), At(le, 4), At(le, 5) >> >>
       ELSE <<>>)
   \o (IF At(le, 2) # At(le, 3)
       THEN << << At(le, 0), At(le, 1), At(le, 2), At(ng, 2) - 1, At(le, 4), At(le, 5) >>,
               << At(le, 0), At(le, 1), At(ng, 3) + 1, At(le, 3), At(le, 4), At(le, 5) >> >>
       ELSE <<>>)
   \o (IF At(le, 4) # At(le, 5)
       THEN << << At(le, 0), At(le, 1), At(le, 2), At(le, 3), At(le, 4), At(ng, 4) - 1 >>,
               << At(le, 0), At(le, 1), At(le, 2), At(le, 3), At(ng, 5) + 1, At(le, 5) >> >>
       ELSE <<>>)

RECURSIVE FillCells(_, _)
FillCells(array, boxes) ==
  IF boxes = <<>> THEN array
  ELSE FillCells(FillGridCellArray(array, Head(boxes), HIDDENCELL), Tail(boxes))

RECURSIVE FillPoints(_, _)
FillPoints(array, boxes) ==
  IF boxes = <<>> THEN array
  ELSE FillPoints(FillGridPointArray(array, Head(boxes), HIDDENPOINT), Tail(boxes))

----------------------------------------------------------------------------
(* The interface id lists.                                                  *)

\* vtkStructuredData::ComputeCellIdForExtent.
ComputeCellIdForExtent(extent, ijk) ==
  LET xdim == Max(At(extent, 1) - At(extent, 0), 1)
      ydim == Max(At(extent, 3) - At(extent, 2), 1)
  IN  (ijk[3] - At(extent, 4)) * ydim * xdim + (ijk[2] - At(extent, 2)) * xdim
        + (ijk[1] - At(extent, 0))

\* The (i, j, k) that `for k in kmin..kmax, for j in jmin..jmax, for i in imin..imax`
\* visits, in order.
RowMajor(imin, imax, jmin, jmax, kmin, kmax) ==
  LET ni == Max(imax - imin + 1, 0)
      nj == Max(jmax - jmin + 1, 0)
      nk == Max(kmax - kmin + 1, 0)
  IN  IF ni = 0 \/ nj = 0 \/ nk = 0 THEN <<>>
      ELSE [n \in 1..(ni * nj * nk) |->
              << imin + ((n - 1) % ni), jmin + (((n - 1) \div ni) % nj),
                 kmin + ((n - 1) \div (ni * nj)) >>]

\* The elements of a sequence.
Range(seq) == {seq[n] : n \in DOMAIN seq}

\* The mutant gives the shared layer to neither side: it never drops the upper layer.
ComputeGridInterfacePointIdsKeepAll(adjacencyMask, localExtent, extent, gridExtent) ==
  LET points == RowMajor(Max(At(extent, 0), At(localExtent, 0)),
                         Min(At(extent, 1), At(localExtent, 1)),
                         Max(At(extent, 2), At(localExtent, 2)),
                         Min(At(extent, 3), At(localExtent, 3)),
                         Max(At(extent, 4), At(localExtent, 4)),
                         Min(At(extent, 5), At(localExtent, 5)))
  IN  [n \in DOMAIN points |-> ComputePointIdForExtent(gridExtent, points[n])]

\* The ids that ComputeGridInterfacePointIds stores, in order.
ComputeGridInterfacePointIds(adjacencyMask, localExtent, extent, gridExtent) ==
  LET imin == Max(At(extent, 0), At(localExtent, 0))
      imax == Min(At(extent, 1), At(localExtent, 1)) - B2I(Bit(adjacencyMask, Right))
      jmin == Max(At(extent, 2), At(localExtent, 2))
      jmax == Min(At(extent, 3), At(localExtent, 3)) - B2I(Bit(adjacencyMask, Back))
      kmin == Max(At(extent, 4), At(localExtent, 4))
      kmax == Min(At(extent, 5), At(localExtent, 5)) - B2I(Bit(adjacencyMask, Top))
      points == RowMajor(imin, imax, jmin, jmax, kmin, kmax)
  IN  [n \in DOMAIN points |-> ComputePointIdForExtent(gridExtent, points[n])]

\* block is [Information, BlockStructures]; grid is the extent of the input.
ComputeInputGridInterfacePointIds(block, gid, grid) ==
  LET blockStructure == block.BlockStructures[gid]
  IN  ComputeGridInterfacePointIds(blockStructure.AdjacencyMask,
                                   block.Information.Extent,
                                   blockStructure.ExtentWithNewGhosts, grid)

\* The mutant hands the adjacency mask over as it is.
ComputeOutputGridInterfacePointIdsNoShift(block, gid, grid) ==
  LET blockStructure == block.BlockStructures[gid]
  IN  ComputeGridInterfacePointIds(blockStructure.AdjacencyMask, grid,
                                   blockStructure.Extent, grid)

\* grid is the extent of the output.
ComputeOutputGridInterfacePointIds(block, gid, grid) ==
  LET blockStructure == block.BlockStructures[gid]
  IN  ComputeGridInterfacePointIds(ShiftLeft1(blockStructure.AdjacencyMask), grid,
                                   blockStructure.Extent, grid)

----------------------------------------------------------------------------
(* The pipeline.                                                           *)

\* ExchangeBlockStructures: every block peels its input, then the descriptor round
\* hands every block the structure of every other block.
\* The items a block enqueues for each of its peers in round 0 of the
\* all_to_all, in the order of the calls: one item per call of srp.enqueue.
EnqueueImageData(information, input, geometry) ==
  LET extent == information.Extent
      origin == geometry.Origin
      spacing == geometry.Spacing
      dimension == DataDimension(input)
      q == geometry.OrientationQuaternion
  IN  << <<dimension>>, origin, spacing, q, extent >>

\* A variant of the receiver that takes the spacing before the origin.
DequeueImageDataSpacingFirst(items) ==
  ImageDataBlockStructure(items[5], items[1][1],
    [Origin |-> items[3], Spacing |-> items[2], OrientationQuaternion |-> items[4]])

\* What the receiver builds of the items of one sender: the k-th call of
\* srp.dequeue takes the k-th item.
DequeueImageData(items) ==
  LET dimension == items[1][1]
      origin == items[2]
      spacing == items[3]
      q == items[4]
      extent == items[5]
  IN  ImageDataBlockStructure(extent, dimension,
        [Origin |-> origin, Spacing |-> spacing, OrientationQuaternion |-> q])

\* ExchangeBlockStructures for images, all blocks at once: every block peels its
\* extent, every block sends, every block receives.
ExchangeBlockStructures ==
  /\ pc = "exchange"
  /\ Information' =
       [b \in gids |->
          [Information[b] EXCEPT
             !.Extent = PeelOffGhostLayers(inputExtent[b], inputGhosts[b],
                                           inputGhostLevels)]]
  /\ BlockStructures' =
       [b \in gids |->
          [g \in gids \ {b} |->
             DequeueImageData(EnqueueImageData(Information'[g], inputExtent[g],
                                               inputGeometry[g]))]]
  /\ pc' = "link"
  /\ UNCHANGED <<gids, inputExtent, inputGeometry, inputGhosts, inputGhostLevels,
                 outputGhostLevels, linkMap, outputExtent, GhostCellArray,
                 GhostPointArray, queue>>

\* The link of every block when the loops visit the neighbors in the order `order`
\* (a sequence of gids; each block visits the ones it holds).
Linked(order) ==
  [b \in gids |->
     LinkBlock(SelectSeq(order, LAMBDA g : g \in DOMAIN BlockStructures[b]),
               BlockStructures[b], Information[b], inputExtent[b], inputGeometry[b],
               outputExtent[b], outputGhostLevels)]

\* ComputeGridLinkMapAndAllocateGhosts over the local blocks: the loop over the
\* std::map of block structures visits the gids in increasing order.  The ghost
\* arrays of each output are allocated for the new extent of the output, all values 0.
ComputeGridLinkMapAndAllocateGhosts ==
  /\ pc = "link"
  /\ \E order \in {Ascending(gids)} :
       \E r \in {Linked(order)} :
           /\ BlockStructures' = [b \in gids |-> r[b].blockStructures]
           /\ Information' = [b \in gids |-> r[b].blockInformation]
           /\ linkMap' = [b \in gids |-> r[b].localLinks]
           /\ outputExtent' = [b \in gids |-> r[b].outputExtent]
  /\ GhostCellArray' = [b \in gids |-> [c \in CellsOf(outputExtent'[b]) |-> 0]]
  /\ GhostPointArray' = [b \in gids |-> [c \in PointsOf(outputExtent'[b]) |-> 0]]
  /\ pc' = "fill"
  /\ UNCHANGED <<gids, inputExtent, inputGeometry, inputGhosts, inputGhostLevels,
                 outputGhostLevels, queue>>

\* FillGridHiddenGhosts over the outputs, taking the pipeline from `from` to `to`.
FillStep(from, to) ==
  /\ pc = from
  /\ GhostCellArray' =
       [b \in gids |->
          FillCells(GhostCellArray[b],
                    HiddenCellBoxes(outputExtent[b], Information[b].Extent))]
  /\ GhostPointArray' =
       [b \in gids |->
          FillPoints(GhostPointArray[b],
                     HiddenPointBoxes(outputExtent[b], Information[b].Extent))]
  /\ pc' = to
  /\ UNCHANGED <<gids, inputExtent, inputGeometry, inputGhosts, inputGhostLevels,
                 outputGhostLevels, Information, BlockStructures, linkMap,
                 outputExtent, queue>>

FillGridHiddenGhosts == FillStep("fill", "done")

\* A second run of FillGridHiddenGhosts on the arrays the first one left.
FillGridHiddenGhostsAgain == FillStep("done", "again")

----------------------------------------------------------------------------
(* Initial states.                                                         *)

\* Same origin, unit spacing, identity orientation.
UnitGeometry ==
  [Origin |-> <<0, 0, 0>>, Spacing |-> <<1, 1, 1>>,
   OrientationQuaternion |-> <<1, 0, 0, 0>>]

Intervals == {iv \in (0..MaxCoord) \X (0..MaxCoord) : iv[1] <= iv[2]}

\* The intervals of the first block of a run: one point or one cell, at 1.
AnchoredIntervals == {<<1, 1>>, <<1, 2>>}

Box(ix, iy, iz) == <<ix[1], ix[2], iy[1], iy[2], iz[1], iz[2]>>

Extents == {Box(ix, iy, iz) : ix \in Intervals, iy \in Intervals, iz \in Intervals}

AnchoredExtents ==
  {Box(ix, iy, iz) : ix \in AnchoredIntervals, iy \in AnchoredIntervals,
                     iz \in AnchoredIntervals}

NoArray == [present |-> FALSE]

\* What a run starts with, given its inputs: nothing peeled, nothing exchanged.
StartAt(extents, geometry, ghosts, ghostLevel) ==
  /\ gids = DOMAIN extents
  /\ inputExtent = extents
  /\ inputGeometry = geometry
  /\ inputGhosts = ghosts
  /\ inputGhostLevels = ghostLevel
  /\ Information =
       [b \in DOMAIN extents |->
          [Extent |-> ZeroExtent, ExtentGhostThickness |-> ZeroExtent]]
  /\ BlockStructures = [b \in DOMAIN extents |-> << >>]
  /\ linkMap = [b \in DOMAIN extents |-> {}]
  /\ outputExtent = extents
  /\ GhostCellArray = [b \in DOMAIN extents |-> << >>]
  /\ GhostPointArray = [b \in DOMAIN extents |-> << >>]
  /\ queue = [link \in (DOMAIN extents) \X (DOMAIN extents) |-> << >>]
  /\ pc = "exchange"

\* Inputs that share the unit frame.
StartWith(extents, ghosts, ghostLevel) ==
  StartAt(extents, [b \in DOMAIN extents |-> UnitGeometry], ghosts, ghostLevel)

\* Inputs without a cell-ghost array.
Start(extents) == StartWith(extents, [b \in DOMAIN extents |-> NoArray], 0)

\* Two blocks.
Init ==
  /\ outputGhostLevels \in 0..MaxGhost
  /\ \E a \in AnchoredExtents, b \in Extents : Start(1 :> a @@ 2 :> b)

Next ==
  \/ ExchangeBlockStructures
  \/ ComputeGridLinkMapAndAllocateGhosts
  \/ FillGridHiddenGhosts

Spec == Init /\ [][Next]_vars

----------------------------------------------------------------------------
(* Three blocks: the first sees two neighbors.  The blocks share their z    *)
(* range (a plane or a slab one cell thick); the first covers y = 2..3, the *)
(* second lies below it (one or two cells deep) or beside it, the third     *)
(* two cells deep below it or beside it.                                    *)

MultiYIntervals == {<<0, 2>>, <<1, 2>>, <<2, 3>>}
DeepYIntervals == {<<0, 2>>, <<2, 3>>}
MultiZIntervals == {<<0, 0>>, <<0, 1>>}

InitMulti ==
  /\ outputGhostLevels \in 0..MaxGhost
  /\ \E iz \in MultiZIntervals :
       \E ax \in AnchoredIntervals, bx \in Intervals, cx \in Intervals :
         \E by \in MultiYIntervals, cy \in DeepYIntervals :
           Start(1 :> Box(ax, <<2, 3>>, iz) @@ 2 :> Box(bx, by, iz)
                   @@ 3 :> Box(cx, cy, iz))

SpecMulti == InitMulti /\ [][Next]_vars

----------------------------------------------------------------------------
(* One output about to be painted: its peeled extent, its ghost thickness   *)
(* and ghost arrays of any contents.  The structures of the neighbors that  *)
(* gave the thickness are left out: FillGridHiddenGhosts does not read them.*)

\* The values an array holds before the painting: v[1] where i + j + k is even,
\* v[2] where it is odd.
Chequered(domain, v) ==
  [c \in domain |-> IF (c[1] + c[2] + c[3]) % 2 = 0 THEN v[1] ELSE v[2]]

\* The ghost thickness of the two sides of an axis of the given interval.
Thicknesses(iv, most) ==
  IF iv[1] = iv[2] THEN {<<0, 0>>} ELSE (0..most) \X (0..most)

InitFill ==
  /\ outputGhostLevels = MaxGhost
  /\ \E ix \in AnchoredIntervals, iy \in AnchoredIntervals, iz \in AnchoredIntervals :
       \E tx \in Thicknesses(ix, MaxGhost), ty \in Thicknesses(iy, MaxGhost),
          tz \in Thicknesses(iz, 1) :
         \E v \in (1..3) \X (1..3) :
           LET peeled == Box(ix, iy, iz)
               thickness == <<tx[1], tx[2], ty[1], ty[2], tz[1], tz[2]>>
               info == [Extent |-> peeled, ExtentGhostThickness |-> thickness]
               output == UpdateOutputGridStructure(info)
               cellValues == <<0, DUPLICATECELL, HIDDENCELL>>
               pointValues == <<0, DUPLICATEPOINT, HIDDENPOINT>>
           IN  /\ gids = {1}
               /\ inputExtent = (1 :> peeled)
               /\ inputGeometry = (1 :> UnitGeometry)
               /\ inputGhosts = (1 :> NoArray)
               /\ inputGhostLevels = 0
               /\ Information = (1 :> info)
               /\ BlockStructures = (1 :> << >>)
               /\ linkMap = (1 :> {})
               /\ outputExtent = (1 :> output)
               /\ GhostCellArray =
                    (1 :> Chequered(CellsOf(output),
                                    <<cellValues[v[1]], cellValues[v[2]]>>))
               /\ GhostPointArray =
                    (1 :> Chequered(PointsOf(output),
                                    <<pointValues[v[1]], pointValues[v[2]]>>))
               /\ queue = [link \in {1} \X {1} |-> << >>]
               /\ pc = "fill"

NextFill ==
  \/ FillGridHiddenGhosts
  \/ FillGridHiddenGhostsAgain

SpecFill == InitFill /\ [][NextFill]_vars

----------------------------------------------------------------------------
(* One input that carries ghost layers: the cells within layers[s] cells of *)
(* side s are marked, and every axis keeps at least one cell that is not.   *)

\* (width, layers below, layers above) of one axis.
PeelAxes ==
  {a \in (0..MaxCoord) \X (0..MaxGhost) \X (0..MaxGhost) :
     IF a[1] = 0 THEN a[2] = 0 /\ a[3] = 0 ELSE a[2] + a[3] < a[1]}

LayeredGhosts(extent, layers) ==
  [present |-> TRUE,
   values |->
     [c \in CellsOf(extent) |->
        IF \E a \in 0..2 :
             /\ At(extent, 2 * a) # At(extent, 2 * a + 1)
             /\ \/ c[a + 1] < At(extent, 2 * a) + At(layers, 2 * a)
                \/ c[a + 1] >= At(extent, 2 * a + 1) - At(layers, 2 * a + 1)
        THEN DUPLICATECELL ELSE 0]]

\* The announced ghost level is at least the number of layers of every side.
InitPeel ==
  /\ outputGhostLevels = 0
  /\ \E ax \in PeelAxes, ay \in PeelAxes, az \in PeelAxes :
       LET extent == <<0, ax[1], 0, ay[1], 0, az[1]>>
           layers == <<ax[2], ax[3], ay[2], ay[3], az[2], az[3]>>
           most == Max(Max(Max(ax[2], ax[3]), Max(ay[2], ay[3])), Max(az[2], az[3]))
       IN  \E ghostLevel \in most..MaxGhost :
             StartWith(1 :> extent, 1 :> LayeredGhosts(extent, layers), ghostLevel)

SpecPeel == InitPeel /\ [][Next]_vars

----------------------------------------------------------------------------
(* Vocabulary of the properties.                                            *)

Peeled(b) == Information[b].Extent
Thickness(b) == Information[b].ExtentGhostThickness
Block(b) == [Information |-> Information[b], BlockStructures |-> BlockStructures[b]]

\* ComputeGridLinkMapAndAllocateGhosts has run on every block.
AfterLink == pc \in {"fill", "done", "again"}

\* The side across the axis from side idx, and the adjacency bit of side idx.
Opposite(idx) == IF idx % 2 = 1 THEN idx - 1 ELSE idx + 1
SideBit(idx) == 2 ^ idx

\* The closed index boxes of two extents share no point.
NoIntersection(e1, e2) ==
  \E a \in 0..2 :
    \/ At(e1, 2 * a + 1) < At(e2, 2 * a)
    \/ At(e2, 2 * a + 1) < At(e1, 2 * a)

\* The width of an extent along the axis of side idx.
WidthAlong(extent, idx) == Abs(At(extent, idx) - At(extent, Opposite(idx)))

----------------------------------------------------------------------------
(* C1: two blocks of equal data dimension, in the same index frame, whose   *)
(* closed index boxes share no point are not in each other's link set once  *)
(* ComputeGridLinkMapAndAllocateGhosts has run on both.                     *)
C1_NoLinkWithoutIntersection ==
  AfterLink =>
    \A a, b \in gids :
      (/\ a # b
       /\ DataDimension(inputExtent[a]) = DataDimension(inputExtent[b])
       /\ NoIntersection(Peeled(a), Peeled(b)))
      => b \notin linkMap[a] /\ a \notin linkMap[b]

----------------------------------------------------------------------------
(* C2: for every block with a valid peeled extent, after                    *)
(* UpdateOutputGridStructure the output extent is the peeled extent with the*)
(* min of each axis i lowered by t[2i] and the max raised by t[2i+1], where *)
(* 0 <= t[j] <= outputGhostLevels on every side j; so each axis grows by    *)
(* t[2i] + t[2i+1], at most 2 * outputGhostLevels.                          *)
C2_OutputGrowth ==
  AfterLink =>
    \A b \in gids :
      IsExtentValid(Peeled(b)) =>
        \A i \in 0..2 :
          LET t == Thickness(b)
              growth == (At(outputExtent[b], 2 * i + 1) - At(outputExtent[b], 2 * i))
                          - (At(Peeled(b), 2 * i + 1) - At(Peeled(b), 2 * i))
          IN  /\ At(outputExtent[b], 2 * i) = At(Peeled(b), 2 * i) - At(t, 2 * i)
              /\ At(outputExtent[b], 2 * i + 1) = At(Peeled(b), 2 * i + 1) + At(t, 2 * i + 1)
              /\ 0 <= At(t, 2 * i) /\ At(t, 2 * i) <= outputGhostLevels
              /\ 0 <= At(t, 2 * i + 1) /\ At(t, 2 * i + 1) <= outputGhostLevels
              /\ growth = At(t, 2 * i) + At(t, 2 * i + 1)
              /\ growth <= 2 * outputGhostLevels

\* A block that two neighbors widen on both sides of the x axis, up to the bound.
C2_Witness ==
  /\ AfterLink
  /\ outputGhostLevels >= 1
  /\ linkMap[1] = {2, 3}
  /\ At(Thickness(1), 0) = outputGhostLevels
  /\ At(Thickness(1), 1) = outputGhostLevels
  /\ At(outputExtent[1], 1) - At(outputExtent[1], 0)
       = At(Peeled(1), 1) - At(Peeled(1), 0) + 2 * outputGhostLevels

----------------------------------------------------------------------------
(* C3: for every neighbor b that block a keeps in its link set, the         *)
(* ExtentWithNewGhosts a stores for b contains the Extent a stores for b;   *)
(* at each extent index opposite to an adjacency bit set for b the bound has*)
(* moved toward a by min(outputGhostLevels, width of b on that axis), and   *)
(* every other index is unchanged.                                          *)
Contains(outer, inner) ==
  \A i \in 0..2 :
    /\ At(outer, 2 * i) <= At(inner, 2 * i)
    /\ At(inner, 2 * i + 1) <= At(outer, 2 * i + 1)

C3_NeighborWidening ==
  AfterLink =>
    \A a \in gids :
      \A b \in linkMap[a] :
        LET n == BlockStructures[a][b]
        IN  /\ Contains(n.ExtentWithNewGhosts, n.Extent)
            /\ \A j \in 0..5 :
                 LET depth == Min(outputGhostLevels, WidthAlong(n.Extent, j))
                 IN  IF Bit(n.AdjacencyMask, SideBit(Opposite(j)))
                       THEN At(n.ExtentWithNewGhosts, j)
                              = At(n.Extent, j) + (IF j % 2 = 0 THEN -1 ELSE 1) * depth
                       ELSE At(n.ExtentWithNewGhosts, j) = At(n.Extent, j)

\* A kept neighbor across a corner: two of its bounds move toward the local block,
\* by less than outputGhostLevels because the neighbor is thinner than that.
C3_Witness ==
  /\ AfterLink
  /\ 2 \in linkMap[1]
  /\ LET n == BlockStructures[1][2]
     IN  /\ n.AdjacencyMask = Right + Back
         /\ At(n.ExtentWithNewGhosts, 0) < At(n.Extent, 0)
         /\ At(n.ExtentWithNewGhosts, 2) < At(n.Extent, 2)
         /\ At(n.Extent, 2) - At(n.ExtentWithNewGhosts, 2) < outputGhostLevels
         /\ At(n.ExtentWithNewGhosts, 1) = At(n.Extent, 1)

----------------------------------------------------------------------------
(* C4: when two linked blocks L and U of equal data dimension share a       *)
(* coincident face, U on the Right/Back/Top side of L, every point of the   *)
(* shared boundary layer is absent from the input-side point list L builds  *)
(* for U and from the output-side point list U builds for L, and present in *)
(* the input-side point list U builds for L and in the output-side point    *)
(* list L builds for U: the point is a received point in L only.            *)

\* U lies across the max side of axis a of L and the two boxes meet in a whole face:
\* on every other axis they overlap over a cell, or both are flat in the same plane.
SharesFace(L, U, a) ==
  /\ At(Peeled(L), 2 * a) < At(Peeled(L), 2 * a + 1)
  /\ At(Peeled(U), 2 * a) < At(Peeled(U), 2 * a + 1)
  /\ At(Peeled(L), 2 * a + 1) = At(Peeled(U), 2 * a)
  /\ \A o \in (0..2) \ {a} :
       LET lo == Max(At(Peeled(L), 2 * o), At(Peeled(U), 2 * o))
           hi == Min(At(Peeled(L), 2 * o + 1), At(Peeled(U), 2 * o + 1))
       IN  \/ lo < hi
           \/ /\ At(Peeled(L), 2 * o) = At(Peeled(L), 2 * o + 1)
              /\ At(Peeled(U), 2 * o) = At(Peeled(U), 2 * o + 1)
              /\ lo = hi

\* The points of both closed boxes.
SharedPoints(L, U) == PointsOf(Peeled(L)) \cap PointsOf(Peeled(U))

\* The points of a grid whose ids a list holds.
Listed(ids, grid) == {p \in PointsOf(grid) : ComputePointIdForExtent(grid, p) \in Range(ids)}

----------------------------------------------------------------------------
(* C5: for each local block and the descriptors it received, the link set,  *)
(* the ghost thickness t[0..5] and the output extent that                   *)
(* ComputeGridLinkMapAndAllocateGhosts leaves are the ones the matching loop*)
(* gives for every order of visiting the neighbors.                         *)
OrderIndependent ==
  pc = "link" =>
    \A order \in Orders(gids) :
      \A b \in gids :
        LET r == Linked(order)[b]
        IN  /\ linkMap'[b] = r.localLinks
            /\ Information'[b].ExtentGhostThickness
                 = r.blockInformation.ExtentGhostThickness
            /\ outputExtent'[b] = r.outputExtent

C5_OrderIndependence == [][OrderIndependent]_vars

\* A block linked to two neighbors that reach its Front side with different depths.
TwoDepths(b, idx) ==
  \E m, n \in linkMap[b] :
    /\ Bit(BlockStructures[b][m].AdjacencyMask, SideBit(idx))
    /\ Bit(BlockStructures[b][n].AdjacencyMask, SideBit(idx))
    /\ Min(outputGhostLevels, WidthAlong(BlockStructures[b][m].Extent, idx))
         < Min(outputGhostLevels, WidthAlong(BlockStructures[b][n].Extent, idx))

C5_Witness ==
  /\ AfterLink
  /\ TwoDepths(1, 2)
  /\ At(Thickness(1), 2) = 2

----------------------------------------------------------------------------
(* C6: when outputGhostLevels = 0, ComputeGridLinkMapAndAllocateGhosts      *)
(* leaves every t[idx] at 0, every output extent equal to the peeled extent *)
(* of its input and every kept neighbor's ExtentWithNewGhosts equal to its  *)
(* Extent, and FillGridHiddenGhosts then changes no value of the cell and   *)
(* point ghost arrays.                                                      *)
NoGhostsAsked ==
  outputGhostLevels = 0 =>
    /\ pc = "link" =>
         \A b \in gids :
           /\ Information'[b].ExtentGhostThickness = ZeroExtent
           /\ outputExtent'[b] = Information'[b].Extent
           /\ Information'[b].Extent
                = PeelOffGhostLayers(inputExtent[b], inputGhosts[b], inputGhostLevels)
           /\ \A n \in DOMAIN BlockStructures'[b] :
                BlockStructures'[b][n].ExtentWithNewGhosts = BlockStructures'[b][n].Extent
    /\ pc = "fill" =>
         /\ GhostCellArray' = GhostCellArray
         /\ GhostPointArray' = GhostPointArray
         /\ \A b \in gids :
              /\ \A c \in DOMAIN GhostCellArray'[b] : GhostCellArray'[b][c] = 0
              /\ \A q \in DOMAIN GhostPointArray'[b] : GhostPointArray'[b][q] = 0

C6_ZeroGhostLevels == [][NoGhostsAsked]_vars

\* No ghost level asked, two blocks that link each other across a face, painting done.
C6_Witness ==
  /\ pc = "done"
  /\ outputGhostLevels = 0
  /\ SharesFace(1, 2, 0)
  /\ linkMap[1] = {2} /\ linkMap[2] = {1}
  /\ outputExtent[1] = Peeled(1)

----------------------------------------------------------------------------
(* C7: for any output extent, peeled extent and contents of the ghost       *)
(* arrays, a second run of FillGridHiddenGhosts leaves the cell and point   *)
(* ghost arrays equal, value for value, to the arrays after the first run.  *)
SecondFillChangesNothing ==
  pc = "done" =>
    /\ GhostCellArray' = GhostCellArray
    /\ GhostPointArray' = GhostPointArray

C7_FillIdempotent == [][SecondFillChangesNothing]_vars

\* After the second run: cells and points painted hidden, over an array that held
\* duplicate marks everywhere the painting did not reach, in a grid with hidden
\* layers on both sides of an axis.
C7_Witness ==
  /\ pc = "again"
  /\ At(Thickness(1), 0) > 0 /\ At(Thickness(1), 1) > 0
  /\ \E c, d \in DOMAIN GhostCellArray[1] :
       /\ GhostCellArray[1][c] = HIDDENCELL
       /\ GhostCellArray[1][d] = DUPLICATECELL
  /\ \E p, q \in DOMAIN GhostPointArray[1] :
       /\ GhostPointArray[1][p] = HIDDENPOINT
       /\ GhostPointArray[1][q] = DUPLICATEPOINT

----------------------------------------------------------------------------
(* C8: for an input whose cell-ghost array marks exactly the cells within   *)
(* g_s outer layers of each side s, and a ghostLevel >= max g_s,            *)
(* PeelOffGhostLayers returns the input extent shrunk by g_s on each side:  *)
(* the largest sub-extent without a marked cell, which is the box around    *)
(* the unmarked cells.                                                      *)
RealCells(b) == {c \in CellsOf(inputExtent[b]) : inputGhosts[b].values[c] = 0}

\* Smallest and largest element of a non-empty set of integers.
Least(S) == CHOOSE x \in S : \A y \in S : x <= y
Greatest(S) == CHOOSE x \in S : \A y \in S : y <= x

\* The extent of the box around the unmarked cells; a flat axis stays as it is.
GhostFreeExtent(b) ==
  LET lo(a) == IF At(inputExtent[b], 2 * a) = At(inputExtent[b], 2 * a + 1)
                 THEN At(inputExtent[b], 2 * a)
                 ELSE Least({c[a + 1] : c \in RealCells(b)})
      hi(a) == IF At(inputExtent[b], 2 * a) = At(inputExtent[b], 2 * a + 1)
                 THEN At(inputExtent[b], 2 * a + 1)
                 ELSE Greatest({c[a + 1] : c \in RealCells(b)}) + 1
  IN  <<lo(0), hi(0), lo(1), hi(1), lo(2), hi(2)>>

C8_PeelShrinksByLayers ==
  (pc # "exchange") =>
    \A b \in gids :
      (inputGhosts[b].present /\ RealCells(b) # {})
        => Peeled(b) = GhostFreeExtent(b)

----------------------------------------------------------------------------
(* C9: once all neighbors of a block are processed, the ghost thickness of  *)
(* every side idx is the largest, over the neighbors n kept in the link set *)
(* whose adjacency mask has the bit of side idx, of                         *)
(* min(outputGhostLevels, |n.Extent[idx] - n.Extent[opposite(idx)]|), and 0 *)
(* when no kept neighbor has the bit: it never exceeds the depth of the     *)
(* deepest neighbor on that side.                                           *)

\* The neighbors block b keeps whose adjacency mask has the bit of side idx.
NeighborsOnSide(b, idx) ==
  {n \in linkMap[b] : Bit(BlockStructures[b][n].AdjacencyMask, SideBit(idx))}

\* The depths those neighbors offer, cut at outputGhostLevels.
DepthsOnSide(b, idx) ==
  {Min(outputGhostLevels, WidthAlong(BlockStructures[b][n].Extent, idx)) :
     n \in NeighborsOnSide(b, idx)}

C9_ThicknessIsDeepestDepth ==
  AfterLink =>
    \A b \in gids :
      \A idx \in 0..5 :
        /\ At(Thickness(b), idx) = Greatest(DepthsOnSide(b, idx) \cup {0})
        /\ NeighborsOnSide(b, idx) # {} =>
             \E n \in NeighborsOnSide(b, idx) :
               At(Thickness(b), idx) <= WidthAlong(BlockStructures[b][n].Extent, idx)

\* A side that a shallow and a deep neighbor both touch, thickened to the deep one's depth.
C9_Witness ==
  /\ pc = "done"
  /\ \E idx \in 0..5 :
       \E m, n \in NeighborsOnSide(1, idx) :
         /\ WidthAlong(BlockStructures[1][m].Extent, idx)
              < WidthAlong(BlockStructures[1][n].Extent, idx)
         /\ At(Thickness(1), idx) = WidthAlong(BlockStructures[1][n].Extent, idx)

\* C9 as stated: the thickness of side idx is within the depth of every kept neighbor
\* on that side.
C9_ThicknessWithinEveryNeighborDepth ==
  AfterLink =>
    \A b \in gids :
      \A idx \in 0..5 :
        \A n \in NeighborsOnSide(b, idx) :
          At(Thickness(b), idx) <= WidthAlong(BlockStructures[b][n].Extent, idx)

----------------------------------------------------------------------------
(* C10: a block whose peeled extent is degenerate on axis a gets no ghost   *)
(* layer on that axis, whatever its neighbors and outputGhostLevels:        *)
(* t[2a] = t[2a+1] = 0 once its neighbors are processed, its output extent  *)
(* is still degenerate on axis a, and FillGridHiddenGhosts paints no slab   *)
(* for axis a: it paints two slabs per axis that is not degenerate, and     *)
(* every value it writes lies in the ghost layers of another axis.          *)
Degenerate(extent, a) == At(extent, 2 * a) = At(extent, 2 * a + 1)

\* The cell (or point, with closed = 1) c lies in the ghost layers of an axis other
\* than a: outside the peeled range of block b along that axis.
InLayersOfOtherAxis(b, c, a, closed) ==
  \E o \in (0..2) \ {a} :
    /\ ~Degenerate(outputExtent[b], o)
    /\ \/ c[o + 1] < At(Peeled(b), 2 * o)
       \/ c[o + 1] >= At(Peeled(b), 2 * o + 1) + closed

C10_DegenerateAxisGetsNoGhosts ==
  AfterLink =>
    \A b \in gids :
      \A a \in 0..2 :
        (IsExtentValid(Peeled(b)) /\ Degenerate(Peeled(b), a)) =>
          /\ At(Thickness(b), 2 * a) = 0
          /\ At(Thickness(b), 2 * a + 1) = 0
          /\ At(outputExtent[b], 2 * a) = At(Peeled(b), 2 * a)
          /\ At(outputExtent[b], 2 * a + 1) = At(Peeled(b), 2 * a + 1)
          /\ Len(HiddenCellBoxes(outputExtent[b], Peeled(b)))
               = 2 * Cardinality({o \in 0..2 : ~Degenerate(Peeled(b), o)})
          /\ Len(HiddenPointBoxes(outputExtent[b], Peeled(b)))
               = 2 * Cardinality({o \in 0..2 : ~Degenerate(Peeled(b), o)})
          /\ pc = "done" =>
               /\ \A c \in DOMAIN GhostCellArray[b] :
                    GhostCellArray[b][c] # 0 => InLayersOfOtherAxis(b, c, a, 0)
               /\ \A q \in DOMAIN GhostPointArray[b] :
                    GhostPointArray[b][q] # 0 => InLayersOfOtherAxis(b, q, a, 1)

\* A flat block (z degenerate) linked to a neighbor that is thick along z and starts
\* in the plane of the flat block; the flat block has ghost layers on another axis and
\* they are painted.
C10_Witness ==
  /\ pc = "done"
  /\ Degenerate(Peeled(1), 2)
  /\ ~Degenerate(Peeled(2), 2)
  /\ At(Peeled(2), 4) = At(Peeled(1), 5)
  /\ 2 \in linkMap[1]
  /\ \E idx \in 0..3 : At(Thickness(1), idx) > 0
  /\ \E c \in DOMAIN GhostCellArray[1] : GhostCellArray[1][c] = HIDDENCELL

----------------------------------------------------------------------------
(* C11: for valid extents A (local) and B (neighbor), the adjacency mask    *)
(* of ComputeAdjacencyAndOverlapMasks never has both bits of an axis (Left  *)
(* and Right, Front and Back, Bottom and Top), and an axis with an          *)
(* adjacency bit set does not have its overlap bit set.                     *)
MasksOf(a, b) == ComputeAdjacencyAndOverlapMasks(Peeled(a), Peeled(b))

\* The overlap bit of axis a: 1, 2, 4.
AxisBit(a) == 2 ^ a

C11_OneBitPerAxis ==
  (pc # "exchange") =>
    \A a, b \in gids :
      (a # b /\ IsExtentValid(Peeled(a)) /\ IsExtentValid(Peeled(b))) =>
        LET m == MasksOf(a, b)
        IN  /\ \A x \in 0..2 :
                 /\ ~(Bit(m.adjacencyMask, SideBit(2 * x))
                        /\ Bit(m.adjacencyMask, SideBit(2 * x + 1)))
                 /\ (Bit(m.adjacencyMask, SideBit(2 * x))
                       \/ Bit(m.adjacencyMask, SideBit(2 * x + 1)))
                      => ~Bit(m.overlapMask, AxisBit(x))
            /\ (AfterLink /\ b \in linkMap[a])
                 => BlockStructures[a][b].AdjacencyMask = m.adjacencyMask

\* A kept neighbor with adjacency bits on two axes and an overlap on the third.
C11_Witness ==
  /\ AfterLink
  /\ MasksOf(1, 2).adjacencyMask = Right + Back
  /\ MasksOf(1, 2).overlapMask = OverlapZ
  /\ 2 \in linkMap[1]
  /\ BlockStructures[1][2].AdjacencyMask = Right + Back

----------------------------------------------------------------------------
(* C12: in every dimensionality d = 1, 2, 3 and for every placement of the  *)
(* non-degenerate axes, a neighbor whose adjacency mask is the single bit   *)
(* of a side f and whose overlap mask is made of the other non-degenerate   *)
(* axes of the local block (the face across f's axis for d = 3, the other   *)
(* axis of the plane for d = 2, nothing for d = 1) is face-adjacent: it is  *)
(* kept in BlockStructures with its gid in the link set, t[f] is            *)
(* min(outputGhostLevels, width of the neighbor on f's axis) and the other  *)
(* five entries of t are as they were.                                      *)

\* The overlap mask of a face neighbor across side f of the extent: the bits of the
\* non-degenerate axes other than the axis of f.
FaceOverlapMask(extent, f) ==
  LET bit(x) == IF x # f \div 2 /\ ~Degenerate(extent, x) THEN AxisBit(x) ELSE 0
  IN  bit(0) + bit(1) + bit(2)

\* Block b is a face neighbor of block a across side f of a.
FaceNeighbor(a, b, f) ==
  /\ a # b
  /\ IsExtentValid(Peeled(a)) /\ IsExtentValid(Peeled(b))
  /\ DataDimension(inputExtent[a]) = DataDimension(inputExtent[b])
  /\ DataDimension(inputExtent[a]) >= 1
  /\ MasksOf(a, b).adjacencyMask = SideBit(f)
  /\ MasksOf(a, b).overlapMask = FaceOverlapMask(Peeled(a), f)

C12_FaceNeighborKept ==
  (AfterLink /\ Cardinality(gids) = 2) =>
    \A a, b \in gids :
      \A f \in 0..5 :
        FaceNeighbor(a, b, f) =>
          /\ b \in DOMAIN BlockStructures[a]
          /\ b \in linkMap[a]
          /\ Thickness(a)
               = Put(ZeroExtent, f, Min(outputGhostLevels, WidthAlong(Peeled(b), f)))

----------------------------------------------------------------------------
(* C13: a neighbor whose (d, OverlapMask, AdjacencyMask) is none of the     *)
(* face, edge and corner combinations is dropped by LinkGrid: its entry     *)
(* leaves BlockStructures, its gid does not enter the link set, and t, the  *)
(* link set and the entries of the other neighbors come out as if the       *)
(* neighbor had not been there; the loop goes on to the next neighbor.      *)

\* The number of adjacency bits of a mask, and the overlap bits of the axes that
\* have one.
BitCount(m) ==
  B2I(Bit(m, Left)) + B2I(Bit(m, Right)) + B2I(Bit(m, Front)) + B2I(Bit(m, Back))
    + B2I(Bit(m, Bottom)) + B2I(Bit(m, Top))

AxesOf(m) ==
  B2I(Bit(m, Left) \/ Bit(m, Right)) * OverlapX
    + B2I(Bit(m, Front) \/ Bit(m, Back)) * OverlapY
    + B2I(Bit(m, Bottom) \/ Bit(m, Top)) * OverlapZ

\* Face: one bit, overlap on the other axes of the grid.  Edge: two bits on two axes,
\* overlap on the remaining axis (none in 2-D).  Corner: three bits, no overlap.
IsAdjacentCombination(d, adjacencyMask, overlapMask) ==
  LET n == BitCount(adjacencyMask)
      onDistinctAxes == ~(Bit(adjacencyMask, Left) /\ Bit(adjacencyMask, Right))
                        /\ ~(Bit(adjacencyMask, Front) /\ Bit(adjacencyMask, Back))
                        /\ ~(Bit(adjacencyMask, Bottom) /\ Bit(adjacencyMask, Top))
      rest == OverlapX + OverlapY + OverlapZ - AxesOf(adjacencyMask)
  IN  /\ n \in 1..3
      /\ onDistinctAxes
      /\ \/ d = 3 /\ overlapMask = rest
         \/ d = 2 /\ n = 1 /\ overlapMask # 0 /\ BitAnd(overlapMask, rest) = overlapMask
         \/ d = 2 /\ n = 2 /\ overlapMask = 0
         \/ d = 1 /\ n = 1 /\ overlapMask = 0

\* The neighbors of block a whose combination is none of the three.
NotAdjacent(a) ==
  {b \in DOMAIN BlockStructures[a] :
     ~IsAdjacentCombination(DataDimension(outputExtent[a]),
                            MasksOf(a, b).adjacencyMask, MasksOf(a, b).overlapMask)}

\* The link of block a when the neighbors in `without` are taken out beforehand.
LinkedWithout(a, without) ==
  LET rest == DOMAIN BlockStructures[a] \ without
  IN  LinkBlock(SelectSeq(Ascending(gids), LAMBDA g : g \in rest),
                [g \in rest |-> BlockStructures[a][g]], Information[a],
                inputExtent[a], inputGeometry[a], outputExtent[a], outputGhostLevels)

NotAdjacentIsDropped ==
  pc = "link" =>
    \A a \in gids :
      IsExtentValid(Peeled(a)) =>
        LET r == LinkedWithout(a, NotAdjacent(a))
        IN  /\ NotAdjacent(a) \cap DOMAIN BlockStructures'[a] = {}
            /\ NotAdjacent(a) \cap linkMap'[a] = {}
            /\ Information'[a] = r.blockInformation
            /\ linkMap'[a] = r.localLinks
            /\ BlockStructures'[a] = r.blockStructures
            /\ outputExtent'[a] = r.outputExtent

C13_NotAdjacentDropped == [][NotAdjacentIsDropped]_vars

\* A block that dropped a neighbor of its own dimension which touches it on one axis
\* without being a face, edge or corner neighbor, and kept another that gave it ghosts.
C13_Witness ==
  /\ AfterLink
  /\ \E a, b, c \in gids :
       /\ a # b /\ DataDimension(inputExtent[a]) = DataDimension(inputExtent[b])
       /\ MasksOf(a, b).adjacencyMask # 0
       /\ b \notin DOMAIN BlockStructures[a]
       /\ linkMap[a] = {c}
       /\ Thickness(a) # ZeroExtent


----------------------------------------------------------------------------
(* Three blocks of which one has an extent with min > max on some axis.     *)

InvalidExtents == {<<0, -1, 0, -1, 0, -1>>, <<2, 3, 1, 0, 0, 0>>, <<2, 3, 1, 2, 1, 0>>}

\* The blocks good[1], bad, good[2] given the gids 1..3 with bad at gid `at`.
WithInvalidAt(at, good, bad) ==
  [g \in 1..3 |-> IF g = at THEN bad ELSE IF g < at THEN good[g] ELSE good[g - 1]]

InitInvalid ==
  /\ outputGhostLevels \in 0..MaxGhost
  /\ \E iz \in MultiZIntervals, ax \in AnchoredIntervals :
       \E cx \in Intervals, cy \in AnchoredIntervals :
         \E bad \in InvalidExtents, at \in 1..3 :
           Start(WithInvalidAt(at, <<Box(ax, <<1, 2>>, iz), Box(cx, cy, iz)>>, bad))

SpecInvalid == InitInvalid /\ [][Next]_vars

----------------------------------------------------------------------------
(* C14                                                                      *)

\* The blocks whose peeled extent has min > max on some axis.
InvalidBlocks == {b \in gids : ~IsExtentValid(Peeled(b))}

InvalidBlockIsSkipped ==
  pc = "link" =>
    /\ \A b \in InvalidBlocks :
         /\ BlockStructures'[b] = << >>
         /\ linkMap'[b] = {}
         /\ outputExtent'[b] = outputExtent[b]
         /\ Information'[b] = Information[b]
         /\ \A a \in gids \ {b} : b \notin linkMap'[a] /\ b \notin DOMAIN BlockStructures'[a]
    /\ \A a \in gids \ InvalidBlocks :
         LET r == LinkedWithout(a, InvalidBlocks)
         IN  /\ Information'[a] = r.blockInformation
             /\ linkMap'[a] = r.localLinks
             /\ BlockStructures'[a] = r.blockStructures
             /\ outputExtent'[a] = r.outputExtent

\* C14 (InvalidInput): the link step leaves a block whose peeled extent has
\* min > max on some axis with no neighbor structures, an empty link set and
\* its output extent as it was; no other block keeps its gid, and every other
\* block is linked exactly as if the invalid block had not been there.
C14_InvalidBlockSkipped == [][InvalidBlockIsSkipped]_vars

\* An invalid block that had received the structures of its two peers beside
\* two valid blocks that linked each other and grew.
C14_Witness ==
  /\ AfterLink
  /\ \E b \in InvalidBlocks :
       /\ BlockStructures[b] = << >>
       /\ linkMap[b] = {}
       /\ outputExtent[b] = inputExtent[b]
       /\ \E a \in gids \ {b}, c \in gids \ {b} :
            /\ a < b /\ b < c
            /\ linkMap[a] = {c} /\ linkMap[c] = {a}
            /\ Thickness(a) # ZeroExtent /\ Thickness(c) # ZeroExtent


----------------------------------------------------------------------------
(* Two image blocks, each in its own frame: origin and spacing differ.      *)

Spacings == {<<1, 1, 1>>, <<2, 2, 2>>, <<1, 1, 2>>, <<2, 2, 1>>, <<1, 2, 1>>}

\* The origins of the second block: whole multiples of every spacing, along x.
Origins == {<<2 * k, 0, 0>> : k \in -2..2}

Geometry(origin, spacing) ==
  [Origin |-> origin, Spacing |-> spacing, OrientationQuaternion |-> <<1, 0, 0, 0>>]

InitGeometry ==
  /\ outputGhostLevels \in 0..MaxGhost
  /\ \E iz \in MultiZIntervals, bx \in Intervals :
       \E s1 \in Spacings, s2 \in Spacings, o2 \in Origins :
         StartAt(1 :> Box(<<1, 2>>, <<1, 2>>, iz) @@ 2 :> Box(bx, <<1, 2>>, iz),
                 1 :> Geometry(<<0, 0, 0>>, s1) @@ 2 :> Geometry(o2, s2),
                 [b \in 1..2 |-> NoArray], 0)

SpecGeometry == InitGeometry /\ [][Next]_vars

----------------------------------------------------------------------------
(* C15                                                                      *)

\* The descriptor of block b, as it is sent to its peers and as the matching
\* loop builds it for the local block.
StructureOf(b) ==
  ImageDataBlockStructure(Peeled(b), DataDimension(inputExtent[b]), inputGeometry[b])

\* Block a, in the local role, accepts the descriptor of block b.
Matches(a, b) == SynchronizeGridExtents(StructureOf(a), StructureOf(b)).ok

\* C15: SynchronizeGridExtents accepts a remote block only if its spacing
\* vector equals the local one and the data dimensions are equal, so a kept
\* neighbor has the local spacing, and the decision is the same whichever of
\* the two blocks plays the local role.
C15_SpacingMatch ==
  pc # "exchange" =>
    \A a \in gids, b \in gids :
      a # b =>
        /\ Matches(a, b) =>
             /\ inputGeometry[a].Spacing = inputGeometry[b].Spacing
             /\ DataDimension(inputExtent[a]) = DataDimension(inputExtent[b])
        /\ Matches(a, b) = Matches(b, a)
        /\ (pc # "link" /\ b \in linkMap[a]) =>
             inputGeometry[a].Spacing = inputGeometry[b].Spacing


----------------------------------------------------------------------------
(* C16                                                                      *)

\* The position along axis x of the point of index i in the frame of block b.
PositionOf(b, x, i) == inputGeometry[b].Origin[x + 1] + i * inputGeometry[b].Spacing[x + 1]

\* The extent of block b as block a, in the local role, sees it after the shift.
ShiftedExtentOf(a, b) == SynchronizeGridExtents(StructureOf(a), StructureOf(b)).shiftedExtent

\* Blocks a and b match and have one spacing, of which their origins differ by
\* whole multiples.
SameLattice(a, b) ==
  /\ a # b /\ Matches(a, b)
  /\ inputGeometry[a].Spacing = inputGeometry[b].Spacing
  /\ \A x \in 0..2 :
       (inputGeometry[b].Origin[x + 1] - inputGeometry[a].Origin[x + 1])
         % inputGeometry[a].Spacing[x + 1] = 0

\* C16: for matched uniform blocks on one lattice the shifted extent is in the
\* local frame: an index of the shifted extent, read in the local frame, is at
\* the position of the remote index it came from; so a remote block that begins
\* at the position where the local block ends has the bit of the local
\* max side (Right, Back, Top) and one that ends where the local block begins
\* has the bit of the min side (Left, Front, Bottom).
C16_ShiftedIntoLocalFrame ==
  pc # "exchange" =>
    \A a \in gids, b \in gids :
      SameLattice(a, b) =>
        \A x \in 0..2 :
          LET masks == ComputeAdjacencyAndOverlapMasks(Peeled(a), ShiftedExtentOf(a, b))
          IN  /\ \A k \in 0..1 :
                   PositionOf(a, x, At(ShiftedExtentOf(a, b), 2 * x + k))
                     = PositionOf(b, x, At(Peeled(b), 2 * x + k))
              /\ (/\ ~Degenerate(Peeled(a), x)
                  /\ PositionOf(b, x, At(Peeled(b), 2 * x))
                       = PositionOf(a, x, At(Peeled(a), 2 * x + 1)))
                   => Bit(masks.adjacencyMask, SideBit(2 * x + 1))
              /\ (/\ ~Degenerate(Peeled(a), x)
                  /\ PositionOf(b, x, At(Peeled(b), 2 * x + 1))
                       = PositionOf(a, x, At(Peeled(a), 2 * x)))
                   => Bit(masks.adjacencyMask, SideBit(2 * x))


----------------------------------------------------------------------------
(* Rectilinear grids.  The geometry of an input is its three coordinate     *)
(* arrays, one value per point of the input extent along the axis.          *)

\* The first loop of ExchangeBlockStructures for rectilinear grids, on one
\* block: a block of valid input extent peels its extent and keeps the
\* coordinates of what is left; any other block is skipped.
PeeledRectilinearInformation(information, input, geometry, ghosts, ghostLevel) ==
  LET extent == PeelOffGhostLayers(input, ghosts, ghostLevel)
      kept(a, coordinates) ==
        InsertTuples(<< >>, 0, At(extent, 2 * a + 1) - At(extent, 2 * a) + 1,
                     At(extent, 2 * a) - At(input, 2 * a), coordinates)
      none == << << >>, << >>, << >>, << >>, << >>, << >> >>
  IN  IF ~IsExtentValid(input)
      THEN [Extent |-> information.Extent,
            ExtentGhostThickness |-> information.ExtentGhostThickness,
            XCoordinates |-> << >>, YCoordinates |-> << >>, ZCoordinates |-> << >>,
            CoordinateGhosts |-> none, CoordinateGhostsAllocated |-> {}]
      ELSE [Extent |-> extent,
            ExtentGhostThickness |-> information.ExtentGhostThickness,
            XCoordinates |-> kept(0, geometry.XCoordinates),
            YCoordinates |-> kept(1, geometry.YCoordinates),
            ZCoordinates |-> kept(2, geometry.ZCoordinates),
            CoordinateGhosts |-> none, CoordinateGhostsAllocated |-> {}]

EnqueueRectilinearGrid(info, input) ==
  LET dimension == DataDimension(input)
      extent == info.Extent
      xCoordinates == info.XCoordinates
      yCoordinates == info.YCoordinates
      zCoordinates == info.ZCoordinates
  IN  << <<dimension>>, extent, xCoordinates, yCoordinates, zCoordinates >>

DequeueRectilinearGrid(items) ==
  LET dimension == items[1][1]
      extent == items[2]
      xCoordinates == items[3]
      yCoordinates == items[4]
      zCoordinates == items[5]
  IN  RectilinearGridBlockStructure(extent, dimension, xCoordinates, yCoordinates,
                                    zCoordinates)

\* ExchangeBlockStructures for rectilinear grids, all blocks at once.
ExchangeRectilinearBlockStructures ==
  /\ pc = "exchange"
  /\ Information' =
       [b \in gids |->
          PeeledRectilinearInformation(Information[b], inputExtent[b], inputGeometry[b],
                                       inputGhosts[b], inputGhostLevels)]
  /\ BlockStructures' =
       [b \in gids |->
          [g \in gids \ {b} |->
             DequeueRectilinearGrid(EnqueueRectilinearGrid(Information'[g], inputExtent[g]))]]
  /\ pc' = "link"
  /\ UNCHANGED <<gids, inputExtent, inputGeometry, inputGhosts, inputGhostLevels,
                 outputGhostLevels, linkMap, outputExtent, GhostCellArray,
                 GhostPointArray, queue>>

\* The coordinate arrays of up to three points with values in 0..MaxCoord.
IncreasingArrays ==
  {Ascending(S) : S \in {T \in SUBSET (0..MaxCoord) : T # {} /\ Cardinality(T) <= 3}}

LocalXArrays == {<<1, 2>>, <<0, 1, 2>>, <<2, 3>>}
YArrays == {<<0, 1>>, <<1, 2>>, <<0, 1, 2>>}

\* The extent that begins at min and has one index per coordinate.
ExtentOver(min, x, y, z) ==
  <<min[1], min[1] + Len(x) - 1, min[2], min[2] + Len(y) - 1, min[3], min[3] + Len(z) - 1>>

Coordinates(x, y, z) == [XCoordinates |-> x, YCoordinates |-> y, ZCoordinates |-> z]

InitRectilinear ==
  /\ outputGhostLevels \in 0..MaxGhost
  /\ \E x1 \in LocalXArrays, x2 \in IncreasingArrays, y1 \in YArrays, y2 \in YArrays :
       \E min2 \in {<<0, 0, 0>>, <<1, 0, 0>>} :
         StartAt(1 :> ExtentOver(<<0, 0, 0>>, x1, y1, <<0>>)
                   @@ 2 :> ExtentOver(min2, x2, y2, <<0>>),
                 1 :> Coordinates(x1, y1, <<0>>) @@ 2 :> Coordinates(x2, y2, <<0>>),
                 [b \in 1..2 |-> NoArray], 0)

NextRectilinear ==
  \/ ExchangeRectilinearBlockStructures
  \/ ComputeGridLinkMapAndAllocateGhosts
  \/ FillGridHiddenGhosts

SpecRectilinear == InitRectilinear /\ [][NextRectilinear]_vars


----------------------------------------------------------------------------
(* C17                                                                      *)

\* The coordinate arrays of a structure or of a block's information, by axis.
ArrayOf(s, x) ==
  CASE x = 0 -> s.XCoordinates [] x = 1 -> s.YCoordinates [] OTHER -> s.ZCoordinates

\* Before the link: the descriptor block a builds of itself, and the worker it
\* runs along axis x on the descriptor it received from block b.
LocalStructureOf(a) ==
  LocalBlockStructure(Information[a], DataDimension(inputExtent[a]), inputGeometry[a])

WorkerOf(a, b, x) ==
  RectilinearGridFittingWorker(ArrayOf(LocalStructureOf(a), x), ArrayOf(BlockStructures[a][b], x))

RectilinearMatch(a, b) ==
  SynchronizeRectilinearGridExtents(LocalStructureOf(a), BlockStructures[a][b])

\* The runs [LocalMinId..LocalMaxId] of local and [MinId..MaxId] of remote are
\* inside their arrays, not empty, of one length and equal entry by entry.
ValueEqualRun(local, remote, w) ==
  /\ 0 <= w.LocalMinId /\ w.LocalMinId <= w.LocalMaxId /\ w.LocalMaxId < Len(local)
  /\ 0 <= w.MinId /\ w.MinId <= w.MaxId /\ w.MaxId < Len(remote)
  /\ w.LocalMaxId - w.LocalMinId = w.MaxId - w.MinId
  /\ \A k \in 0..(w.MaxId - w.MinId) :
       GetValue(local, w.LocalMinId + k) = GetValue(remote, w.MinId + k)

\* C17: for rectilinear grids SynchronizeGridExtents returns true only if on
\* every axis the run [LocalMinId..LocalMaxId] of the local coordinate array
\* and the run [MinId..MaxId] of the remote one have the same length and are
\* equal entry by entry; arrays that share no such run never match.
C17_ValueEqualRun ==
  pc = "link" =>
    \A a \in gids, b \in gids :
      (a # b /\ RectilinearMatch(a, b).ok) =>
        \A x \in 0..2 :
          ValueEqualRun(ArrayOf(LocalStructureOf(a), x), ArrayOf(BlockStructures[a][b], x),
                        WorkerOf(a, b, x))


----------------------------------------------------------------------------
(* C18                                                                      *)

\* The cell c of the output of block b lies in a ghost layer: outside the cells
\* of the peeled extent along an axis that has cells.
CellOutsidePeeled(b, c) ==
  \E x \in 0..2 :
    /\ ~Degenerate(Peeled(b), x)
    /\ c[x + 1] < At(Peeled(b), 2 * x) \/ c[x + 1] >= At(Peeled(b), 2 * x + 1)

\* The point p of the output of block b lies outside the closed point range of
\* the peeled extent.
PointOutsidePeeled(b, p) ==
  \E x \in 0..2 : p[x + 1] < At(Peeled(b), 2 * x) \/ p[x + 1] > At(Peeled(b), 2 * x + 1)

HiddenExactlyOutside ==
  pc = "fill" =>
    \A b \in gids :
      /\ \A c \in DOMAIN GhostCellArray[b] :
           /\ CellOutsidePeeled(b, c) => GhostCellArray'[b][c] = HIDDENCELL
           /\ ~CellOutsidePeeled(b, c) => GhostCellArray'[b][c] = GhostCellArray[b][c]
           /\ GhostCellArray[b][c] # HIDDENCELL =>
                (GhostCellArray'[b][c] = HIDDENCELL <=> CellOutsidePeeled(b, c))
      /\ \A p \in DOMAIN GhostPointArray[b] :
           /\ PointOutsidePeeled(b, p) => GhostPointArray'[b][p] = HIDDENPOINT
           /\ ~PointOutsidePeeled(b, p) => GhostPointArray'[b][p] = GhostPointArray[b][p]
           /\ GhostPointArray[b][p] # HIDDENPOINT =>
                (GhostPointArray'[b][p] = HIDDENPOINT <=> PointOutsidePeeled(b, p))
      /\ DOMAIN GhostCellArray'[b] = DOMAIN GhostCellArray[b]
      /\ DOMAIN GhostPointArray'[b] = DOMAIN GhostPointArray[b]
      /\ \A x \in 0..2 :
           Degenerate(outputExtent[b], x) =>
             /\ \A c \in DOMAIN GhostCellArray[b] : c[x + 1] = At(Peeled(b), 2 * x)
             /\ \A p \in DOMAIN GhostPointArray[b] : p[x + 1] = At(Peeled(b), 2 * x)

\* C18: FillGridHiddenGhosts writes the HIDDEN cell marker into every cell of
\* the output outside the peeled extent and the HIDDEN point marker into
\* every point outside the closed peeled point range, and leaves every other
\* cell and point as it was: a cell or point that was not marked before is
\* marked after iff it lies outside; along a degenerate axis of the output
\* nothing lies outside.
C18_HiddenExactlyOutside == [][HiddenExactlyOutside]_vars

\* A painted output with a degenerate axis and ghost layers on both sides of
\* another, whose cells and points outside are marked while one cell and one
\* point inside still carry the duplicate mark they had.
C18_Witness ==
  /\ pc = "done"
  /\ \E x \in 0..2 : Degenerate(outputExtent[1], x)
  /\ \E x \in 0..2 : At(Thickness(1), 2 * x) > 0 /\ At(Thickness(1), 2 * x + 1) > 0
  /\ \E c, d \in DOMAIN GhostCellArray[1] :
       /\ CellOutsidePeeled(1, c) /\ GhostCellArray[1][c] = HIDDENCELL
       /\ ~CellOutsidePeeled(1, d) /\ GhostCellArray[1][d] = DUPLICATECELL
  /\ \E p, q \in DOMAIN GhostPointArray[1] :
       /\ PointOutsidePeeled(1, p) /\ GhostPointArray[1][p] = HIDDENPOINT
       /\ ~PointOutsidePeeled(1, q) /\ GhostPointArray[1][q] = DUPLICATEPOINT


----------------------------------------------------------------------------
(* Structured grids, as far as the exchange of block structures goes.  The  *)
(* points of a grid are a sequence; GetPoint counts from 0, in the order of *)
(* ComputePointIdForExtent over the grid's extent.                          *)


\* CopyOuterLayerGridPoints: the points of the input on side i of extent, numbered
\* by ComputePointIdForExtent over extent collapsed onto that side.
CopyOuterLayerGridPoints(inputPoints, input, extent, i) ==
  LET j == ((i + 2) % 6) - (((i + 2) % 6) % 2)
      k == ((i + 4) % 6) - (((i + 4) % 6) % 2)
      numberOfPoints == (At(extent, j + 1) - At(extent, j) + 1)
                          * (At(extent, k + 1) - At(extent, k) + 1)
      collapsed == Put(extent, i + (IF i % 2 = 1 THEN -1 ELSE 1), At(extent, i))
  IN  [id \in 1..numberOfPoints |->
         LET ijk == CHOOSE p \in PointsOf(collapsed) :
                      ComputePointIdForExtent(collapsed, p) = id - 1
         IN  GetPoint(inputPoints, ComputePointIdForExtent(input, ijk))]

\* The first loop of ExchangeBlockStructures for structured grids, on one block.
PeeledStructuredInformation(information, input, geometry, ghosts, ghostLevel) ==
  LET extent == PeelOffGhostLayers(input, ghosts, ghostLevel)
  IN  IF ~IsExtentValid(input)
      THEN [Extent |-> information.Extent,
            ExtentGhostThickness |-> information.ExtentGhostThickness,
            OuterPointLayers |-> << << >>, << >>, << >>, << >>, << >>, << >> >>]
      ELSE [Extent |-> extent,
            ExtentGhostThickness |-> information.ExtentGhostThickness,
            OuterPointLayers |->
              [s \in 1..6 |-> CopyOuterLayerGridPoints(geometry.Points, input, extent, s - 1)]]

EnqueueStructuredGrid(info, input) ==
  LET dimension == DataDimension(input)
      extent == info.Extent
  IN  << <<dimension>>, extent >>
        \o [extentId \in 1..6 |-> At(info.OuterPointLayers, extentId - 1)]

DequeueStructuredGrid(items) ==
  LET dimension == items[1][1]
      extent == items[2]
      points == [extentId \in 1..6 |-> items[2 + extentId]]
  IN  StructuredGridBlockStructure(extent, dimension, points)

----------------------------------------------------------------------------
(* ExchangeBlockStructures block by block.  The overload is chosen by the   *)
(* type of the inputs.  Round 0 of the all_to_all runs on each block in any *)
(* order; a block's part of the first loop is taken together with its round *)
(* 0, as neither touches another block.  Round 1 runs on each block once    *)
(* every block has sent.                                                    *)

FamilyOf(geometry) ==
  IF "Origin" \in DOMAIN geometry THEN "image"
  ELSE IF "XCoordinates" \in DOMAIN geometry THEN "rectilinear"
  ELSE "structured"

PeeledInformation(b) ==
  CASE FamilyOf(inputGeometry[b]) = "image" ->
         [Information[b] EXCEPT
            !.Extent = PeelOffGhostLayers(inputExtent[b], inputGhosts[b], inputGhostLevels)]
    [] FamilyOf(inputGeometry[b]) = "rectilinear" ->
         PeeledRectilinearInformation(Information[b], inputExtent[b], inputGeometry[b],
                                      inputGhosts[b], inputGhostLevels)
    [] OTHER ->
         PeeledStructuredInformation(Information[b], inputExtent[b], inputGeometry[b],
                                     inputGhosts[b], inputGhostLevels)

Enqueue(b, information) ==
  CASE FamilyOf(inputGeometry[b]) = "image" ->
         EnqueueImageData(information, inputExtent[b], inputGeometry[b])
    [] FamilyOf(inputGeometry[b]) = "rectilinear" ->
         EnqueueRectilinearGrid(information, inputExtent[b])
    [] OTHER -> EnqueueStructuredGrid(information, inputExtent[b])

Dequeue(b, items) ==
  CASE FamilyOf(inputGeometry[b]) = "image" -> DequeueImageData(items)
    [] FamilyOf(inputGeometry[b]) = "rectilinear" -> DequeueRectilinearGrid(items)
    [] OTHER -> DequeueStructuredGrid(items)

\* Block s has enqueued for every peer.
HasSent(s) == \A g \in gids \ {s} : queue[<<s, g>>] # << >>

ExchangeRound0(b) ==
  /\ pc = "exchange"
  /\ \A g \in gids \ {b} : queue[<<b, g>>] = << >>
  /\ Information' = [Information EXCEPT ![b] = PeeledInformation(b)]
  /\ queue' = [link \in DOMAIN queue |->
                 IF link[1] = b /\ link[2] # b THEN Enqueue(b, Information'[b])
                 ELSE queue[link]]
  /\ pc' = IF \A s \in gids \ {b} : HasSent(s) THEN "round 1" ELSE "exchange"
  /\ UNCHANGED <<gids, inputExtent, inputGeometry, inputGhosts, inputGhostLevels,
                 outputGhostLevels, BlockStructures, linkMap, outputExtent,
                 GhostCellArray, GhostPointArray>>

ExchangeRound1(b) ==
  /\ pc = "round 1"
  /\ \E g \in gids \ {b} : queue[<<g, b>>] # << >>
  /\ BlockStructures' =
       [BlockStructures EXCEPT ![b] = [g \in gids \ {b} |-> Dequeue(b, queue[<<g, b>>])]]
  /\ queue' = [link \in DOMAIN queue |-> IF link[2] = b THEN << >> ELSE queue[link]]
  /\ pc' = IF \A link \in DOMAIN queue : queue'[link] = << >> THEN "link" ELSE "round 1"
  /\ UNCHANGED <<gids, inputExtent, inputGeometry, inputGhosts, inputGhostLevels,
                 outputGhostLevels, Information, linkMap, outputExtent,
                 GhostCellArray, GhostPointArray>>

\* The inputs of the exchange: an extent and the ghost layers its array marks.
ExchangeInputs ==
  { <<Box(<<0, 2>>, <<0, 1>>, <<0, 0>>), ZeroExtent>>,
    <<Box(<<0, MaxCoord>>, <<0, 2>>, <<0, 0>>), <<1, 1, 0, 0, 0, 0>>>>,
    <<Box(<<1, MaxCoord>>, <<0, 2>>, <<0, 1>>), <<0, 1, 1, 0, 0, 0>>>>,
    <<Box(<<1, 1>>, <<1, MaxCoord>>, <<0, 0>>), <<0, 0, 0, 1, 0, 0>>>> }

\* A geometry of the family for the block gid of the given extent, in which no two
\* fields and no two points are alike.
GeometryOf(family, gid, extent) ==
  CASE family = "image" ->
         [Origin |-> <<gid, 0, 0>>, Spacing |-> <<1, 2, 3>>,
          OrientationQuaternion |-> <<1, 0, 0, 0>>]
    [] family = "rectilinear" ->
         [XCoordinates |-> [i \in 1..(At(extent, 1) - At(extent, 0) + 1) |-> 2 * i + gid],
          YCoordinates |-> [i \in 1..(At(extent, 3) - At(extent, 2) + 1) |-> 3 * i],
          ZCoordinates |-> [i \in 1..(At(extent, 5) - At(extent, 4) + 1) |-> 5 * i + 1]]
    [] OTHER ->
         [Points |->
            [id \in 1..Cardinality(PointsOf(extent)) |->
               LET ijk == CHOOSE p \in PointsOf(extent) :
                            ComputePointIdForExtent(extent, p) = id - 1
               IN  <<ijk[1] + gid, 2 * ijk[2], 3 * ijk[3]>>]]

InitExchange ==
  /\ outputGhostLevels = 0
  /\ \E family \in {"image", "rectilinear", "structured"} :
       \E inputs \in [1..3 -> ExchangeInputs] :
         StartAt([b \in 1..3 |-> inputs[b][1]],
                 [b \in 1..3 |-> GeometryOf(family, b, inputs[b][1])],
                 [b \in 1..3 |-> LayeredGhosts(inputs[b][1], inputs[b][2])], 1)

NextExchange == \E b \in gids : ExchangeRound0(b) \/ ExchangeRound1(b)

SpecExchange == InitExchange /\ [][NextExchange]_vars


----------------------------------------------------------------------------
(* C19                                                                      *)

\* The coordinates block g keeps along axis x are those of its input over the
\* peeled range.
KeptCoordinates(g, x) ==
  LET kept == ArrayOf(Information[g], x)
      lo == At(Peeled(g), 2 * x)
  IN  /\ Len(kept) = At(Peeled(g), 2 * x + 1) - lo + 1
      /\ \A i \in lo..At(Peeled(g), 2 * x + 1) :
           kept[i - lo + 1] = ArrayOf(inputGeometry[g], x)[i - At(inputExtent[g], 2 * x) + 1]

\* The points of the input of block g on side s of its peeled extent.
FacePoints(g, s) ==
  {GetPoint(inputGeometry[g].Points, ComputePointIdForExtent(inputExtent[g], p)) :
     p \in {q \in PointsOf(Peeled(g)) : q[s \div 2 + 1] = At(Peeled(g), s)}}

\* The structure carries the peeled extent, the data dimension and the geometry
\* of the block g that sent it.
Carries(structure, g) ==
  /\ structure.Extent = Peeled(g)
  /\ Peeled(g) = PeelOffGhostLayers(inputExtent[g], inputGhosts[g], inputGhostLevels)
  /\ structure.DataDimension = DataDimension(inputExtent[g])
  /\ CASE FamilyOf(inputGeometry[g]) = "image" ->
            /\ structure.Origin = inputGeometry[g].Origin
            /\ structure.Spacing = inputGeometry[g].Spacing
            /\ structure.OrientationQuaternion = inputGeometry[g].OrientationQuaternion
       [] FamilyOf(inputGeometry[g]) = "rectilinear" ->
            \A x \in 0..2 :
              /\ ArrayOf(structure, x) = ArrayOf(Information[g], x)
              /\ KeptCoordinates(g, x)
       [] OTHER ->
            \A s \in 0..5 :
              /\ At(structure.OuterPointLayers, s) = At(Information[g].OuterPointLayers, s)
              /\ {At(structure.OuterPointLayers, s)[i] :
                    i \in DOMAIN At(structure.OuterPointLayers, s)} = FacePoints(g, s)
              /\ Len(At(structure.OuterPointLayers, s)) = Cardinality(FacePoints(g, s))

\* The items in flight from block g are in the order of the wire format of its family.
InWireOrder(items, g) ==
  /\ items[1] = <<DataDimension(inputExtent[g])>>
  /\ CASE FamilyOf(inputGeometry[g]) = "image" ->
            /\ Len(items) = 5
            /\ items[2] = inputGeometry[g].Origin
            /\ items[3] = inputGeometry[g].Spacing
            /\ items[4] = inputGeometry[g].OrientationQuaternion
            /\ items[5] = Peeled(g)
       [] FamilyOf(inputGeometry[g]) = "rectilinear" ->
            /\ Len(items) = 5
            /\ items[2] = Peeled(g)
            /\ \A x \in 0..2 : items[3 + x] = ArrayOf(Information[g], x)
       [] OTHER ->
            /\ Len(items) = 8
            /\ items[2] = Peeled(g)
            /\ \A s \in 0..5 : items[3 + s] = At(Information[g].OuterPointLayers, s)

\* C19 (round A): while the exchange runs, what a block has sent is in flight in
\* the order of its family (uniform: dimension, origin, spacing, quaternion,
\* extent; rectilinear: dimension, extent, X, Y, Z; curvilinear: dimension,
\* extent, sides 0..5) and what a block has received it has built a structure
\* of; when the exchange is over nothing is in flight and every block holds
\* one structure for every other gid and none for itself, each with the
\* sender's peeled extent, data dimension and geometry.
C19_DescriptorBroadcast ==
  /\ \A link \in DOMAIN queue :
       queue[link] # << >> =>
         /\ link[1] # link[2]
         /\ pc \in {"exchange", "round 1"}
         /\ InWireOrder(queue[link], link[1])
  /\ \A b \in gids :
       /\ b \notin DOMAIN BlockStructures[b]
       /\ \A g \in DOMAIN BlockStructures[b] : Carries(BlockStructures[b][g], g)
       /\ pc = "link" => DOMAIN BlockStructures[b] = gids \ {b}

\* The exchange is over for three blocks of which one had ghost layers to peel.
C19_Witness ==
  /\ pc = "link"
  /\ Cardinality(gids) = 3
  /\ \E g \in gids : Peeled(g) # inputExtent[g]
  /\ \A b \in gids : DOMAIN BlockStructures[b] = gids \ {b}
  /\ \A link \in DOMAIN queue : queue[link] = << >>


----------------------------------------------------------------------------
(* C20                                                                      *)

\* The values two coordinate arrays share.
SharedValues(local, remote) ==
  {local[i] : i \in DOMAIN local} \cap {remote[i] : i \in DOMAIN remote}

\* The index, counted from 0, of the first entry of array that other holds too:
\* where the run of value-equal entries begins in array.
FirstIndexOfRun(array, other) ==
  CHOOSE id \in 0..(Len(array) - 1) :
    /\ GetValue(array, id) \in SharedValues(array, other)
    /\ \A v \in SharedValues(array, other) : GetValue(array, id) <= v

\* Block a accepts block b and their arrays share a value along every axis.
MatchedOnARun(a, b) ==
  /\ a # b
  /\ RectilinearMatch(a, b).ok
  /\ \A x \in 0..2 :
       SharedValues(ArrayOf(LocalStructureOf(a), x), ArrayOf(BlockStructures[a][b], x)) # {}

\* The translation of the extent of block b along axis x, as block a computes it.
TranslationOf(a, b, x) ==
  At(RectilinearMatch(a, b).shiftedExtent, 2 * x) - At(BlockStructures[a][b].Extent, 2 * x)

LocalIsProperSuffix(local, remote) ==
  /\ GetValue(remote, 0) < GetValue(local, 0)
  /\ GetValue(local, Len(local) - 1) <= GetValue(remote, Len(remote) - 1)

----------------------------------------------------------------------------
(* C21                                                                      *)

\* The indices along axis x that lie both in extent and in otherExtent.
CommonIndices(extent, otherExtent, x) ==
  {i \in At(extent, 2 * x)..At(extent, 2 * x + 1) :
     At(otherExtent, 2 * x) <= i /\ i <= At(otherExtent, 2 * x + 1)}

\* Along axis x the local coordinate and the remote coordinate agree at every
\* index that the local extent and the shifted remote extent share.
SameCoordinates(a, b, x) ==
  \A i \in CommonIndices(Peeled(a), RectilinearMatch(a, b).shiftedExtent, x) :
    GetValue(ArrayOf(LocalStructureOf(a), x), i - At(Peeled(a), 2 * x))
      = GetValue(ArrayOf(BlockStructures[a][b], x),
                 i - At(RectilinearMatch(a, b).shiftedExtent, 2 * x))

\* C21: for every matched rectilinear pair and every axis the shifted remote
\* extent is in the local frame: at an index i that lies in the local range
\* and in the shifted remote range, the local coordinate at i equals the
\* remote coordinate at i, whatever the relative placement of the two
\* coordinate arrays.
C21_ShiftedExtentInLocalFrame ==
  pc = "link" =>
    \A a \in gids, b \in gids :
      (a # b /\ RectilinearMatch(a, b).ok) => \A x \in 0..2 : SameCoordinates(a, b, x)


----------------------------------------------------------------------------
(* Three rectilinear blocks cut out of one grid: the first covers the x     *)
(* indices 2..3 and every y index, the two others lie beside it along x,    *)
(* one or two cells deep, over a part or the whole of its y range.  The     *)
(* extents are the indices of the grid.                                     *)

XGrid == <<0, 1, 3, 4, 6, 7>>
YGrid == <<0, 2, 3>>

\* The entries of grid from index from to index to, both counted from 0.
SubGrid(grid, from, to) == [i \in 1..(to - from + 1) |-> grid[from + i]]

SideXIntervals == {<<0, 2>>, <<1, 2>>, <<3, 4>>, <<3, 5>>}
SideYIntervals == {<<0, 1>>, <<1, 2>>, <<0, 2>>}

GridCoordinates(ix, iy) ==
  Coordinates(SubGrid(XGrid, ix[1], ix[2]), SubGrid(YGrid, iy[1], iy[2]), <<0>>)

InitRectilinearMulti ==
  /\ outputGhostLevels \in 0..MaxGhost
  /\ \E bx \in SideXIntervals, cx \in SideXIntervals :
       \E by \in SideYIntervals, cy \in SideYIntervals :
         StartAt(1 :> Box(<<2, 3>>, <<0, 2>>, <<0, 0>>) @@ 2 :> Box(bx, by, <<0, 0>>)
                   @@ 3 :> Box(cx, cy, <<0, 0>>),
                 1 :> GridCoordinates(<<2, 3>>, <<0, 2>>) @@ 2 :> GridCoordinates(bx, by)
                   @@ 3 :> GridCoordinates(cx, cy),
                 [b \in 1..3 |-> NoArray], 0)

SpecRectilinearMulti == InitRectilinearMulti /\ [][NextRectilinear]_vars

----------------------------------------------------------------------------
(* C22                                                                      *)

\* The arrays UpdateOutputGridPoints hands to the output with SetXCoordinates,
\* SetYCoordinates and SetZCoordinates.
OutputGridPoints(blockInformation) ==
  LET ghosts == blockInformation.CoordinateGhosts
      has(idx) == idx \in blockInformation.CoordinateGhostsAllocated
  IN  << AppendGhostPointsForRectilinearGrid(blockInformation.XCoordinates,
           At(ghosts, 0), has(0), At(ghosts, 1), has(1))[1],
         AppendGhostPointsForRectilinearGrid(blockInformation.YCoordinates,
           At(ghosts, 2), has(2), At(ghosts, 3), has(3))[1],
         AppendGhostPointsForRectilinearGrid(blockInformation.ZCoordinates,
           At(ghosts, 4), has(4), At(ghosts, 5), has(5))[1] >>

\* What the matching loop of block b leaves, before UpdateOutputGridPoints.
MatchedOf(b) ==
  MatchingLoop(SelectSeq(Ascending(gids), LAMBDA g : g \in DOMAIN BlockStructures[b]),
               [blockStructures |-> BlockStructures[b],
                blockInformation |-> Information[b],
                localLinks |-> {}],
               LocalStructureOf(b), outputGhostLevels, DataDimension(outputExtent[b]))

\* The grid the blocks are cut out of, by axis.
GridOf(x) == CASE x = 0 -> XGrid [] x = 1 -> YGrid [] OTHER -> <<0>>

\* The array holds the t coordinates of the grid beyond side idx of extent, in
\* increasing order; there are none beyond the ends of the grid.
HoldsCoordinatesBeyond(array, extent, idx, t) ==
  /\ Len(array) = t
  /\ \A k \in 1..t :
       LET i == IF idx % 2 = 1 THEN At(extent, idx) + k ELSE At(extent, idx) - t + k - 1
       IN  /\ i >= 0
           /\ i < Len(GridOf(idx \div 2))
           /\ array[k] = GetValue(GridOf(idx \div 2), i)

StrictlyIncreasing(array) ==
  \A i, j \in DOMAIN array : i < j => array[i] < array[j]

\* The accumulators and the output arrays of block b are as C22 has them.
GhostCoordinatesOf(b) ==
  LET info == MatchedOf(b).blockInformation
      output == UpdateOutputGridStructure(info)
  IN  /\ \A idx \in 0..5 :
           HoldsCoordinatesBeyond(At(info.CoordinateGhosts, idx), info.Extent, idx,
                                  At(info.ExtentGhostThickness, idx))
      /\ \A x \in 0..2 :
           /\ StrictlyIncreasing(OutputGridPoints(info)[x + 1])
           /\ Len(OutputGridPoints(info)[x + 1])
                = At(output, 2 * x + 1) - At(output, 2 * x) + 1

\* C22: for a rectilinear block, once its neighbors are processed, the
\* ghost-coordinate accumulator of each side idx holds exactly t[idx] samples:
\* the t[idx] coordinates lying immediately beyond the shared boundary
\* coordinate, in increasing order, also when neighbors of different depths
\* contribute to one side; the output coordinate array of each axis is
\* strictly increasing and has (output extent width + 1) entries.
C22_GhostCoordinates ==
  pc = "link" => \A b \in gids : GhostCoordinatesOf(b)


----------------------------------------------------------------------------
(* Structured grids through the link.  The points of a block are the lattice *)
(* points of a box of space; the block numbers them in a frame of its own:   *)
(* index axis a runs along the axis axes[a] of space, towards the larger     *)
(* coordinates if signs[a] = 1 and towards the smaller if signs[a] = -1, and *)
(* its indices begin at origin[a].                                           *)

\* ExchangeBlockStructures for structured grids, all blocks at once.
ExchangeStructuredBlockStructures ==
  /\ pc = "exchange"
  /\ Information' =
       [b \in gids |->
          PeeledStructuredInformation(Information[b], inputExtent[b], inputGeometry[b],
                                      inputGhosts[b], inputGhostLevels)]
  /\ BlockStructures' =
       [b \in gids |->
          [g \in gids \ {b} |->
             DequeueStructuredGrid(EnqueueStructuredGrid(Information'[g], inputExtent[g]))]]
  /\ pc' = "link"
  /\ UNCHANGED <<gids, inputExtent, inputGeometry, inputGhosts, inputGhostLevels,
                 outputGhostLevels, linkMap, outputExtent, GhostCellArray,
                 GhostPointArray, queue>>

AxisOrders ==
  {<<1, 2, 3>>, <<1, 3, 2>>, <<2, 1, 3>>, <<2, 3, 1>>, <<3, 1, 2>>, <<3, 2, 1>>}

AxisSigns == [1..3 -> {1, -1}]

\* The extent of a block that numbers the box [low, high] of space in the given frame.
FramedExtent(low, high, axes, origin) ==
  <<origin[1], origin[1] + high[axes[1]] - low[axes[1]],
    origin[2], origin[2] + high[axes[2]] - low[axes[2]],
    origin[3], origin[3] + high[axes[3]] - low[axes[3]]>>

\* The place in space of the point ijk of such a block.
FramedPoint(low, high, axes, signs, origin, ijk) ==
  [w \in 1..3 |->
     LET a == CHOOSE c \in 1..3 : axes[c] = w
     IN  IF signs[a] = 1 THEN low[w] + (ijk[a] - origin[a])
         ELSE high[w] - (ijk[a] - origin[a])]

\* The points of such a block, by point id.
FramedPoints(low, high, axes, signs, origin) ==
  [Points |->
     [id \in 1..Cardinality(PointsOf(FramedExtent(low, high, axes, origin))) |->
        FramedPoint(low, high, axes, signs, origin,
                    ComputePointStructuredCoordsForExtent(id - 1,
                      FramedExtent(low, high, axes, origin)))]]

\* The box of block 1, and the boxes of block 2: across a whole face of block 1,
\* deeper than wide across that face, along an edge, across another face,
\* across a part of a face, and apart.
LocalBox == << <<0, 0, 0>>, <<2, 1, 1>> >>

NeighborBoxes ==
  { << <<2, 0, 0>>, <<3, 1, 1>> >>,
    << <<2, 0, 0>>, <<4, 1, 1>> >>,
    << <<2, 1, 0>>, <<3, 2, 1>> >>,
    << <<0, 0, 1>>, <<2, 1, 3>> >>,
    << <<2, 0, 0>>, <<3, 1, 2>> >>,
    << <<3, 0, 0>>, <<4, 1, 1>> >> }

InitStructured ==
  /\ outputGhostLevels = 1
  /\ \E origin1 \in {<<0, 0, 0>>}, box \in NeighborBoxes, axes \in AxisOrders,
        signs \in AxisSigns, origin2 \in {<<1, 2, 0>>} :
       StartAt(1 :> FramedExtent(LocalBox[1], LocalBox[2], <<1, 2, 3>>, origin1)
                 @@ 2 :> FramedExtent(box[1], box[2], axes, origin2),
               1 :> FramedPoints(LocalBox[1], LocalBox[2], <<1, 2, 3>>,
                                 [a \in 1..3 |-> 1], origin1)
                 @@ 2 :> FramedPoints(box[1], box[2], axes, signs, origin2),
               [b \in 1..2 |-> NoArray], 0)

NextStructured ==
  \/ ExchangeStructuredBlockStructures
  \/ ComputeGridLinkMapAndAllocateGhosts
  \/ FillGridHiddenGhosts

SpecStructured == InitStructured /\ [][NextStructured]_vars

\* Before the link: what block a finds when it fits the descriptor of block b.
StructuredMatch(a, b) ==
  SynchronizeStructuredGridExtents(LocalStructureOf(a), BlockStructures[a][b])


----------------------------------------------------------------------------
(* C23                                                                      *)

\* The index that faces i along its axis.
OppositeExtentId(i) == IF i % 2 = 1 THEN i - 1 ELSE i + 1

\* The width of a block of the given extent along the axis normal to its face r.
DepthBehind(extent, r) == Abs(At(extent, r) - At(extent, OppositeExtentId(r)))

\* The extent of a neighbor that lies against the local face f over the
\* rectangle localGrid of that face and is depth wide behind it.
ExtentAgainstFace(localExtent, f, localGrid, depth) ==
  LET inFace == Put(Put(Put(Put(localExtent, XDim(f), localGrid.StartX),
                            XDim(f) + 1, localGrid.EndX),
                        YDim(f), localGrid.StartY), YDim(f) + 1, localGrid.EndY)
  IN  IF f % 2 = 1
      THEN Put(Put(inFace, f - 1, At(localExtent, f)), f, At(localExtent, f) + depth)
      ELSE Put(Put(inFace, f + 1, At(localExtent, f)), f, At(localExtent, f) - depth)

\* The result m of a match has the shifted extent against the local face it
\* was found on, and the masks computed from it have the bit of that face.
ShiftedAgainstFace(localExtent, extent, m) ==
  /\ m.shiftedExtent
       = ExtentAgainstFace(localExtent, m.worker.Matched.LocalExtentIndex, m.worker.LocalGrid,
                           DepthBehind(extent, m.worker.Matched.sideId))
  /\ Bit(ComputeAdjacencyAndOverlapMasks(localExtent, m.shiftedExtent).adjacencyMask,
         SideBit(m.worker.Matched.LocalExtentIndex))

MatchShiftedAgainstFace(localExtent, extent, m) ==
  m.ok => ShiftedAgainstFace(localExtent, extent, m)

\* C23: when a block matches its face f with the face r of a neighbor, the
\* shifted extent is the discovered rectangle of f on the two axes of the face
\* and, on the axis normal to f, begins at the local extent of f and goes away
\* from the block by the neighbor's width behind r; the adjacency mask computed
\* from it has the bit of face f.
C23_ShiftedExtentAgainstFace ==
  pc = "link" =>
    \A a \in gids : \A b \in gids \ {a} :
      MatchShiftedAgainstFace(Peeled(a), BlockStructures[a][b].Extent, StructuredMatch(a, b))

----------------------------------------------------------------------------
(* C24                                                                      *)

\* The point at (x, y) of the face of a block structure.
FacePointAt(blockStructure, face, x, y) ==
  GetPoint(At(blockStructure.OuterPointLayers, face),
           ComputePointIdForExtent(FaceExtent(blockStructure.Extent, face),
             FaceIjk(face, blockStructure.Extent, XDim(face), YDim(face), x, y)))

\* The rectangle is canonical: it runs upwards along both axes.
IsCanonical(grid) ==
  /\ grid.StartX <= grid.EndX
  /\ grid.StartY <= grid.EndY
  /\ grid.XOrientation = 1
  /\ grid.YOrientation = 1

\* The two rectangles of a worker start on one point and end on one point, and
\* the neighbor's rectangle runs from its start to its end the way its
\* orientations say.
RectanglesCorrespond(localBlockStructure, blockStructure, worker) ==
  /\ FacePointAt(localBlockStructure, worker.Matched.LocalExtentIndex,
                 worker.LocalGrid.StartX, worker.LocalGrid.StartY)
       = FacePointAt(blockStructure, worker.Matched.sideId,
                     worker.Grid.StartX, worker.Grid.StartY)
  /\ FacePointAt(localBlockStructure, worker.Matched.LocalExtentIndex,
                 worker.LocalGrid.EndX, worker.LocalGrid.EndY)
       = FacePointAt(blockStructure, worker.Matched.sideId,
                     worker.Grid.EndX, worker.Grid.EndY)
  /\ (worker.Grid.EndX - worker.Grid.StartX) * worker.Grid.XOrientation >= 0
  /\ (worker.Grid.EndY - worker.Grid.StartY) * worker.Grid.YOrientation >= 0

CanonicalMatch(localBlockStructure, blockStructure, m) ==
  m.ok => IsCanonical(m.worker.LocalGrid)
            /\ RectanglesCorrespond(localBlockStructure, blockStructure, m.worker)

\* C24: whenever the worker reports a connection, the local rectangle is
\* canonical (Start <= End and orientation +1 along both axes, also when it is
\* one point wide and when the neighbor queried), and the neighbor's rectangle
\* has been flipped along with it: the two still start and end on the same points.
C24_CanonicalLocalGrid ==
  pc = "link" =>
    \A a \in gids : \A b \in gids \ {a} :
      CanonicalMatch(LocalStructureOf(a), BlockStructures[a][b], StructuredMatch(a, b))

----------------------------------------------------------------------------
(* C25                                                                      *)

\* The number of points of a rectangle.
AreaOf(grid) == (Abs(grid.EndX - grid.StartX) + 1) * (Abs(grid.EndY - grid.StartY) + 1)

\* After each fitting sweep the rectangle kept is as large as every fitting
\* rectangle seen up to it.
RetainsLargest(observed) ==
  \A i \in DOMAIN observed : \A j \in 1..i :
    AreaOf(observed[i].Retained) >= AreaOf(observed[j].Fitting)

\* C25: over the fitting rectangles the sweeps of a worker find, one after the
\* other, the rectangle retained has at every moment an area at least that of
\* every fitting rectangle observed so far; a smaller one never replaces a
\* larger one.
C25_LargestRectangleRetained ==
  pc = "link" =>
    \A a \in gids : \A b \in gids \ {a} : RetainsLargest(StructuredMatch(a, b).worker.Observed)

----------------------------------------------------------------------------
(* C26                                                                      *)

\* ComputeGridInterfaceCellIds.  The result is [NumberOfIds, Cells, Ids]: the
\* number of ids the list is given by SetNumberOfIds (a list holds no id when
\* the number is not positive), the (i, j, k) the loops visit in order, and the
\* ids the loops set, in order.
ComputeGridInterfaceCellIds(localExtent, extent, gridExtent) ==
  LET imin == Max(At(extent, 0), At(localExtent, 0))
      imax == Min(At(extent, 1), At(localExtent, 1))
                + B2I(At(localExtent, 0) = At(localExtent, 1))
      jmin == Max(At(extent, 2), At(localExtent, 2))
      jmax == Min(At(extent, 3), At(localExtent, 3))
                + B2I(At(localExtent, 2) = At(localExtent, 3))
      kmin == Max(At(extent, 4), At(localExtent, 4))
      kmax == Min(At(extent, 5), At(localExtent, 5))
                + B2I(At(localExtent, 4) = At(localExtent, 5))
      cells == RowMajor(imin, imax - 1, jmin, jmax - 1, kmin, kmax - 1)
  IN  [NumberOfIds |-> Max((imax - imin) * (jmax - jmin) * (kmax - kmin), 0),
       Cells |-> cells,
       Ids |-> [n \in DOMAIN cells |-> ComputeCellIdForExtent(gridExtent, cells[n])]]

\* block is [Information, BlockStructures]; grid is the extent of the input.
ComputeInputGridInterfaceCellIds(block, gid, grid) ==
  ComputeGridInterfaceCellIds(block.Information.Extent,
                              block.BlockStructures[gid].ExtentWithNewGhosts, grid)

\* grid is the extent of the output.
ComputeOutputGridInterfaceCellIds(block, gid, grid) ==
  ComputeGridInterfaceCellIds(grid, block.BlockStructures[gid].Extent, grid)

\* The number of cells of a grid: an axis without width counts for one.
NumberOfCells(extent) ==
  Max(At(extent, 1) - At(extent, 0), 1) * Max(At(extent, 3) - At(extent, 2), 1)
    * Max(At(extent, 5) - At(extent, 4), 1)

\* Every id of the list is set and is the id of a cell of the grid.
CellIdsInGrid(list, gridExtent) ==
  /\ list.NumberOfIds = Len(list.Ids)
  /\ \A n \in DOMAIN list.Ids : 0 <= list.Ids[n] /\ list.Ids[n] < NumberOfCells(gridExtent)

\* What a sends to b and what b expects of a are the same cells in the same order.
CellPayloadsAgree(sent, expected, input, output) ==
  /\ sent.NumberOfIds = expected.NumberOfIds
  /\ sent.Cells = expected.Cells
  /\ CellIdsInGrid(sent, input)
  /\ CellIdsInGrid(expected, output)

\* C26: for two blocks in each other's link sets, the list of input cells one
\* builds for the other and the list of output cells the other builds for it
\* have the same length and hold the same cells in the same row-major order,
\* and every id is an id of its grid, whatever other neighbors the blocks have.
C26_CellPayloadsAgree ==
  AfterLink =>
    \A a \in gids : \A b \in gids \ {a} :
      (b \in linkMap[a] /\ a \in linkMap[b])
        => CellPayloadsAgree(ComputeInputGridInterfaceCellIds(Block(a), b, inputExtent[a]),
                             ComputeOutputGridInterfaceCellIds(Block(b), a, outputExtent[b]),
                             inputExtent[a], outputExtent[b])

----------------------------------------------------------------------------
(* C27                                                                      *)

\* The number of points of a grid.
NumberOfPoints(extent) ==
  (At(extent, 1) - At(extent, 0) + 1) * (At(extent, 3) - At(extent, 2) + 1)
    * (At(extent, 5) - At(extent, 4) + 1)

\* Every id of the list is the id of a point of the grid.
PointIdsInGrid(ids, gridExtent) ==
  \A n \in DOMAIN ids : 0 <= ids[n] /\ ids[n] < NumberOfPoints(gridExtent)

\* The (i, j, k) of the points whose ids a list holds, in the order of the list.
PointsListed(ids, gridExtent) ==
  [n \in DOMAIN ids |-> ComputePointStructuredCoordsForExtent(ids[n], gridExtent)]

\* What a sends to b and what b expects of a are the same points in the same order.
PointPayloadsAgree(sent, expected, input, output) ==
  /\ Len(sent) = Len(expected)
  /\ PointIdsInGrid(sent, input)
  /\ PointIdsInGrid(expected, output)
  /\ PointsListed(sent, input) = PointsListed(expected, output)

\* C27: for two blocks in each other's link sets, the list of input points one
\* builds for the other and the list of output points the other builds for it
\* have the same length and hold the same points in the same row-major order,
\* whatever other neighbors the blocks have; the receiver, with the mask
\* shifted left by one bit, leaves out the layer the sender left out.
C27_PointPayloadsAgree ==
  AfterLink =>
    \A a \in gids : \A b \in gids \ {a} :
      (b \in linkMap[a] /\ a \in linkMap[b])
        => PointPayloadsAgree(ComputeInputGridInterfacePointIds(Block(a), b, inputExtent[a]),
                              ComputeOutputGridInterfacePointIds(Block(b), a, outputExtent[b]),
                              inputExtent[a], outputExtent[b])

----------------------------------------------------------------------------
(* C28                                                                      *)

\* The mask with Left and Right, Front and Back, Bottom and Top exchanged.
MirrorMask(mask) ==
    B2I(Bit(mask, Right)) * Left + B2I(Bit(mask, Left)) * Right
  + B2I(Bit(mask, Back)) * Front + B2I(Bit(mask, Front)) * Back
  + B2I(Bit(mask, Top)) * Bottom + B2I(Bit(mask, Bottom)) * Top

\* Both blocks have valid extents and the same data dimension.
Comparable(a, b) ==
  /\ IsExtentValid(Peeled(a)) /\ IsExtentValid(Peeled(b))
  /\ DataDimension(inputExtent[a]) = DataDimension(inputExtent[b])

SymmetricLink(a, b) ==
  /\ b \in linkMap[a] <=> a \in linkMap[b]
  /\ (b \in linkMap[a] /\ a \in linkMap[b])
       => BlockStructures[a][b].AdjacencyMask = MirrorMask(BlockStructures[b][a].AdjacencyMask)

\* C28: once every block has been linked, for two blocks of valid extents and
\* equal data dimension each is in the other's link set or neither is, and when
\* they are the mask one stores for the other is the mirror of the mask the
\* other stores for it.
C28_LinkSymmetric ==
  AfterLink =>
    \A a \in gids : \A b \in gids \ {a} : Comparable(a, b) => SymmetricLink(a, b)

----------------------------------------------------------------------------
(* C29                                                                      *)
(* The matching loop with its iterator: `it` is the key the iterator points *)
(* at, or End past the last entry.  blockStructures.erase(it) gives the     *)
(* iterator that follows the erased entry, and LinkGrid ends by ++it when   *)
(* it has not erased, so each pass leaves `it` on the key that follows.     *)

End == -1

\* The iterator two entries past k: an erasure followed by an increment.
KeyAfterNext(m, k) ==
  IF Cardinality({g \in DOMAIN m : g > k}) < 2 THEN End
  ELSE CHOOSE g \in DOMAIN m :
         g > k /\ Cardinality({h \in DOMAIN m : h > k /\ h < g}) = 1

\* blockStructures.begin()
Begin(m) == IF DOMAIN m = {} THEN End ELSE CHOOSE g \in DOMAIN m : \A h \in DOMAIN m : g <= h

\* The iterator after erase(it) or ++it, `it` being at the key k of the map m.
Following(m, k) ==
  IF \A g \in DOMAIN m : g <= k THEN End
  ELSE CHOOSE g \in DOMAIN m : g > k /\ \A h \in DOMAIN m : h > k => g <= h

\* for (auto it = blockStructures.begin(); it != blockStructures.end();) ...
\* The result is [st, Visited]: what the loop leaves and the keys it has visited.
RECURSIVE MatchingLoopFrom(_, _, _, _, _, _)
MatchingLoopFrom(st, it, visited, localBlockStructure, ogl, dim) ==
  IF it = End THEN [st |-> st, Visited |-> visited]
  ELSE MatchingLoopFrom(MatchNeighbor(st, it, localBlockStructure, ogl, dim),
                        Following(st.blockStructures, it), Append(visited, it),
                        localBlockStructure, ogl, dim)

\* The loop of block b on the descriptors it holds before the link.
MatchingLoopOf(b) ==
  MatchingLoopFrom([blockStructures |-> BlockStructures[b],
                    blockInformation |-> Information[b],
                    localLinks |-> {}],
                   Begin(BlockStructures[b]), << >>,
                   LocalStructureOf(b), outputGhostLevels, DataDimension(outputExtent[b]))

\* The masks of a neighbor are those of a face, an edge or a corner.
IsClassified(masks, dim) == LinkGridSides(masks.adjacencyMask, masks.overlapMask, dim) # << >>

\* Block b accepts the descriptor it holds of g: the extents synchronize and
\* the masks are those of a face, an edge or a corner.
Accepts(b, g) ==
  /\ SynchronizeGridExtents(LocalStructureOf(b), BlockStructures[b][g]).ok
  /\ IsClassified(ComputeAdjacencyAndOverlapMasks(Peeled(b),
                    SynchronizeGridExtents(LocalStructureOf(b),
                                           BlockStructures[b][g]).shiftedExtent),
                  DataDimension(outputExtent[b]))

\* What the link leaves of block b is what the loop with its iterator leaves:
\* each descriptor visited once, the refused ones erased, the others linked.
LoopLeaves(b, run) ==
  /\ run.Visited = Ascending(DOMAIN BlockStructures[b])
  /\ BlockStructures'[b] = run.st.blockStructures
  /\ linkMap'[b] = run.st.localLinks
  /\ DOMAIN BlockStructures'[b] = linkMap'[b]
  /\ linkMap'[b] = {g \in DOMAIN BlockStructures[b] : Accepts(b, g)}

EveryDescriptorExaminedOnce ==
  pc = "link" => \A b \in gids : IsExtentValid(Peeled(b)) => LoopLeaves(b, MatchingLoopOf(b))

\* C29: when the matching loop has run for a block of valid extent, the gids
\* left in its BlockStructures are its link set: the loop has examined every
\* descriptor exactly once in spite of the erasures, has erased every one that
\* failed SynchronizeGridExtents or the classification, and has linked the rest.
C29_RemainingAreLinked == [][EveryDescriptorExaminedOnce]_vars

\* A block has erased its first descriptor and linked its second.
C29_Witness ==
  /\ pc = "fill"
  /\ IsExtentValid(Peeled(3))
  /\ linkMap[3] = {2}
  /\ DOMAIN BlockStructures[3] = {2}

----------------------------------------------------------------------------
(* C30                                                                      *)

\* The extent inner lies within the extent outer on every axis.
ContainedIn(inner, outer) ==
  \A a \in 0..2 :
    /\ At(outer, 2 * a) <= At(inner, 2 * a)
    /\ At(inner, 2 * a + 1) <= At(outer, 2 * a + 1)

\* The axes on which the extent is one point wide are the same in both.
DegenerateAxesKept(peeled, extent) ==
  \A a \in 0..2 :
    At(extent, 2 * a) = At(extent, 2 * a + 1)
      => /\ At(peeled, 2 * a) = At(extent, 2 * a)
         /\ At(peeled, 2 * a + 1) = At(extent, 2 * a + 1)

\* C30: for every input grid of valid extent, whatever its cell-ghost array
\* holds and whatever the ghost level (also one larger than the width of an
\* axis), PeelOffGhostLayers returns a valid extent (min <= max on every axis)
\* contained in the input extent, with the degenerate axes unchanged, and
\* returns the input extent when the grid has no cell-ghost array.
C30_PeeledExtentValid ==
  (pc # "exchange") =>
    \A b \in gids :
      IsExtentValid(inputExtent[b]) =>
        /\ IsExtentValid(Peeled(b))
        /\ ContainedIn(Peeled(b), inputExtent[b])
        /\ DegenerateAxesKept(Peeled(b), inputExtent[b])
        /\ ~inputGhosts[b].present => Peeled(b) = inputExtent[b]

=============================================================================
